---- MODULE Spec2Model ----
(***************************************************************************)
(* StreamAPI: a scraping proxy with a search endpoint (src/search.js) and  *)
(* a details endpoint (src/details.js) over shared utilities (utils.js,    *)
(* kept at the end of src/app.js).                                         *)
(*                                                                         *)
(* Text is modelled as a sequence of one-character strings; JavaScript     *)
(* values are tagged records.  Regular expressions are run by a small      *)
(* matcher that keeps the alternatives in the order a backtracking engine  *)
(* tries them, over patterns written node by node from the source's regex  *)
(* literals.                                                               *)
(***************************************************************************)
EXTENDS Integers, Sequences, FiniteSets, TLC

VARIABLES
    pc,        \* the server: "idle", "fetching" (a handler awaits axios.get), "done"
    req,       \* the request being handled: its route and parameters
    outbound,  \* the URLs fetched for this request so far
    fetched,   \* the page the fetch resolved with or the failure it rejected
               \* with, Undef before either
    res,       \* the response sent for this request, Pending before it is sent
    fn,        \* utility under call: the function's name, or "idle"
    arg,       \* its argument
    ret,       \* its outcome, Pending until it has returned or thrown
    again      \* outcome of a second application to the first result

apiVars == <<pc, req, outbound, fetched, res>>
fnVars == <<fn, arg, ret, again>>
vars == <<apiVars, fnVars>>

(***************************************************************************)
(* Text                                                                    *)
(***************************************************************************)
Lower == {"a","b","c","d","e","f","g","h","i","j","k","l","m",
          "n","o","p","q","r","s","t","u","v","w","x","y","z"}
Upper == {"A","B","C","D","E","F","G","H","I","J","K","L","M",
          "N","O","P","Q","R","S","T","U","V","W","X","Y","Z"}
Digit == {"0","1","2","3","4","5","6","7","8","9"}
Space == {" ", "\t", "\n", "\r"}

Min(S) == CHOOSE x \in S : \A y \in S : x <= y
Max(S) == CHOOSE x \in S : \A y \in S : y <= x

\* Body of value, with value computed first
With(value, Body(_)) == CASE value = value -> Body(value)

\* a sequence given as a function on 1..n, as the tuple of its elements
Table(f) == <<>> \o f

RECURSIVE Concat(_, _, _)
\* part[lo] \o ... \o part[hi]
Concat(part, lo, hi) ==
    IF lo > hi THEN <<>>
    ELSE IF lo = hi THEN part[lo]
    ELSE Concat(part, lo, (lo + hi) \div 2) \o Concat(part, (lo + hi) \div 2 + 1, hi)

RECURSIVE Reduce(_, _, _, _, _)
\* a.slice(lo - 1, hi).reduce(Op, init): Op over the elements lo..hi of a, in
\* their order, from init
Reduce(Op(_, _), a, lo, hi, init) ==
    IF lo > hi THEN init
    ELSE IF lo = hi THEN Op(init, a[lo])
    ELSE LET half == Reduce(Op, a, lo, (lo + hi) \div 2, init)
         IN  CASE half = half -> Reduce(Op, a, (lo + hi) \div 2 + 1, hi, half)

\* the parts one after another
Flatten(parts) == With(Table(parts), LAMBDA all : Concat(all, 1, Len(all)))

\* array.filter(test), the test given as the set of elements that pass
Filter(a, pass) == SelectSeq(a, LAMBDA e : e \in pass)

\* s.includes(sub)
Includes(s, sub) ==
    \/ sub = <<>>
    \/ \E i \in 1..(Len(s) - Len(sub) + 1) :
          s[i] = sub[1] /\ SubSeq(s, i, i + Len(sub) - 1) = sub

\* s.trim()
Trim(s) ==
    LET keep == {i \in 1..Len(s) : s[i] \notin Space}
    IN  IF keep = {} THEN <<>>
        ELSE SubSeq(s, Min(keep), Max(keep))

(***************************************************************************)
(* Regular expressions.  A pattern is a sequence of nodes:                 *)
(*   Lit(cs)            the literal text cs                                *)
(*   Rep(cls, min, lz)  at least min characters of class cls, as few as    *)
(*                      possible when lz (x*?), else as many (x*, x+)      *)
(*   One(cls)           one character of class cls                         *)
(*   Open(n), Close(n)  the parentheses of capture group n                 *)
(*   Star(sub)          (?:sub)*, for a sub-pattern that matches no empty  *)
(*                      text                                               *)
(* A class is a set of characters, possibly negated.                       *)
(***************************************************************************)
Lit(cs) == [k |-> "lit", cs |-> cs]
Rep(cls, min, lz) == [k |-> "rep", cls |-> cls, min |-> min, lz |-> lz]
One(cls) == [k |-> "one", cls |-> cls]
Open(n) == [k |-> "open", n |-> n]
Close(n) == [k |-> "close", n |-> n]
Star(sub) == [k |-> "star", sub |-> sub]

In(set) == [neg |-> FALSE, set |-> set]
NotIn(set) == [neg |-> TRUE, set |-> set]
AnyChar == NotIn({})
InClass(c, cls) == (c \in cls.set) # cls.neg

NoMatch == [ok |-> FALSE]

\* the number of consecutive characters of class cls in s from position i
RunLen(s, i, cls) ==
    IF i > Len(s) THEN 0
    ELSE (CHOOSE j \in i..(Len(s) + 1) :
              /\ j > Len(s) \/ ~InClass(s[j], cls)
              /\ \A k \in i..(j - 1) : InClass(s[k], cls)) - i

\* a thread of the matcher: the position it has reached in the text and the
\* capture groups it has met
Thread(i, caps) == [i |-> i, caps |-> caps]

RECURSIVE Run(_, _, _, _, _)
RECURSIVE StarOf(_, _, _)

\* whether thread t can take node nd, for a node that one thread takes in
\* one way at most
Takes(nd, s, t) ==
    CASE nd.k = "lit" ->
           /\ t.i + Len(nd.cs) - 1 <= Len(s)
           /\ s[t.i] = nd.cs[1]
           /\ SubSeq(s, t.i, t.i + Len(nd.cs) - 1) = nd.cs
      [] nd.k = "one" -> t.i <= Len(s) /\ InClass(s[t.i], nd.cls)
      [] OTHER -> TRUE

\* thread t after such a node
Taken(nd, t) ==
    CASE nd.k = "lit" -> Thread(t.i + Len(nd.cs), t.caps)
      [] nd.k = "one" -> Thread(t.i + 1, t.caps)
      [] nd.k = "open" -> Thread(t.i, (nd.n :> <<t.i, t.i>>) @@ t.caps)
      [] nd.k = "close" -> Thread(t.i, (nd.n :> <<t.caps[nd.n][1], t.i>>) @@ t.caps)

\* the threads that thread t becomes by a repetition, in the matcher's order
\* of preference: the most characters first, or the fewest when it is lazy
Repeated(nd, s, t) ==
    LET most == RunLen(s, t.i, nd.cls)
    IN  [m \in 1..(most - nd.min + 1) |->
            Thread(t.i + (IF nd.lz THEN nd.min + m - 1 ELSE most - m + 1), t.caps)]

\* the threads after node nd of the threads ths before it
Step(nd, s, ths) ==
    CASE nd.k = "rep" -> Concat([j \in 1..Len(ths) |-> Repeated(nd, s, ths[j])], 1, Len(ths))
      [] nd.k = "star" -> Concat([j \in 1..Len(ths) |-> StarOf(nd.sub, s, ths[j])], 1, Len(ths))
      [] OTHER -> LET taking == SelectSeq(ths, LAMBDA t : Takes(nd, s, t))
                  IN  Table([j \in 1..Len(taking) |-> Taken(nd, taking[j])])

\* the threads after nodes lo..hi of pattern p: none once none is left
Run(p, lo, hi, s, ths) ==
    IF lo > hi THEN ths
    ELSE IF lo = hi THEN Step(p[lo], s, ths)
    ELSE LET half == Run(p, lo, (lo + hi) \div 2, s, ths)
         IN  IF half = <<>> THEN <<>> ELSE Run(p, (lo + hi) \div 2 + 1, hi, s, half)

\* (?:sub)* from thread t: another round of sub is preferred to stopping
StarOf(sub, s, t) ==
    LET once == Run(sub, 1, Len(sub), s, <<t>>)
    IN  Concat([j \in 1..Len(once) |-> StarOf(sub, s, once[j])], 1, Len(once)) \o <<t>>

\* match pattern p against s at position st: the preferred thread that
\* reaches the end of the pattern
MatchAt(p, s, st) ==
    LET ths == Run(p, 1, Len(p), s, <<Thread(st, <<>>)>>)
    IN  IF ths = <<>> THEN NoMatch
        ELSE [ok |-> TRUE, end |-> ths[1].i, caps |-> ths[1].caps]

\* the outcome of matching p at each position of s
Tries(p, s) == Table([st \in 1..(Len(s) + 1) |-> MatchAt(p, s, st)])

\* the leftmost match at or after position from, given the outcomes try
Leftmost(try, from) ==
    LET hits == {st \in from..Len(try) : try[st].ok}
    IN  IF hits = {} THEN NoMatch
        ELSE [ok |-> TRUE, start |-> Min(hits), end |-> try[Min(hits)].end,
              caps |-> try[Min(hits)].caps]

\* the leftmost match of p in s starting at or after position from
Search(p, s, from) == Leftmost(Tries(p, s), from)

\* the text of capture group n of match m
Group(s, m, n) == SubSeq(s, m.caps[n][1], m.caps[n][2] - 1)

\* a replacement template: literal text and $n references
TLit(cs) == [k |-> "lit", cs |-> cs]
TGrp(n) == [k |-> "grp", n |-> n]

RECURSIVE Expand(_, _, _, _)
Expand(tpl, j, s, m) ==
    IF j > Len(tpl) THEN <<>>
    ELSE (IF tpl[j].k = "lit" THEN tpl[j].cs ELSE Group(s, m, tpl[j].n))
         \o Expand(tpl, j + 1, s, m)

RECURSIVE ReplaceFrom(_, _, _, _)
\* s.replace(/p/g, tpl), from position pos on, given the outcomes try of
\* matching p at each position of s
ReplaceFrom(try, tpl, s, pos) ==
    LET m == Leftmost(try, pos)
    IN  IF ~m.ok THEN SubSeq(s, pos, Len(s))
        ELSE SubSeq(s, pos, m.start - 1) \o Expand(tpl, 1, s, m)
             \o (IF m.end > m.start THEN ReplaceFrom(try, tpl, s, m.end)
                 ELSE IF m.start > Len(s) THEN <<>>
                 ELSE <<s[m.start]>> \o ReplaceFrom(try, tpl, s, m.start + 1))

ReplaceAll(p, tpl, s) == With(s, LAMBDA text : ReplaceFrom(Tries(p, text), tpl, text, 1))

RECURSIVE MatchesFrom(_, _)
\* the successive matches from position pos on, given the outcomes try
MatchesFrom(try, pos) ==
    LET m == Leftmost(try, pos)
    IN  IF ~m.ok THEN <<>>
        ELSE <<m>> \o MatchesFrom(try, IF m.end > m.start THEN m.end ELSE m.end + 1)

\* the matches of a /g pattern, as by repeated exec, from position pos on
MatchAllFrom(p, s, pos) == MatchesFrom(Tries(p, s), pos)

(***************************************************************************)
(* JavaScript values.  Numbers are the integers and NaN; an object is a    *)
(* function from its keys (texts) to values.  A call ends in a value or    *)
(* in a thrown TypeError.  Two values are compared field by field in the   *)
(* order in which the field names first occur in the module, so the tag t  *)
(* has to occur before the payload v: no identifier v stands above here.   *)
(***************************************************************************)
Undef == [t |-> "undefined"]
Null == [t |-> "null"]
NaN == [t |-> "NaN"]
Num(n) == [t |-> "number", v |-> n]
Str(s) == [t |-> "string", v |-> s]
Bool(b) == [t |-> "boolean", v |-> b]
Arr(a) == [t |-> "array", v |-> a]
Obj(f) == [t |-> "object", v |-> f]
TypeError == [t |-> "throw", v |-> "TypeError"]
Pending == [t |-> "pending"]

\* a property that an object under construction does not get
Absent == [t |-> "absent"]

\* the object with the properties of f that are not Absent
MkObj(f) == Obj([k \in {k \in DOMAIN f : f[k] # Absent} |-> f[k]])

IsStr(x) == x.t = "string"
IsNum(x) == x.t = "number"
Threw(x) == x.t = "throw"

\* ToBoolean
Truthy(x) ==
    CASE x.t \in {"undefined", "null", "NaN"} -> FALSE
      [] x.t = "boolean" -> x.v
      [] x.t = "number" -> x.v # 0
      [] x.t = "string" -> x.v # <<>>
      [] OTHER -> TRUE

\* a || b
Or(a, b) == IF Truthy(a) THEN a ELSE b

\* x.key ; reading a property of undefined or null throws
Get(x, key) ==
    CASE x.t \in {"undefined", "null"} -> TypeError
      [] x.t = "object" -> IF key \in DOMAIN x.v THEN x.v[key] ELSE Undef
      [] OTHER -> Undef

DigitChar(d) == <<"0","1","2","3","4","5","6","7","8","9">>[d + 1]
DigitVal(c) == CHOOSE d \in 0..9 : DigitChar(d) = c

RECURSIVE Decimal(_)
\* the decimal digits of a non-negative integer
Decimal(n) == IF n < 10 THEN <<DigitChar(n)>> ELSE Decimal(n \div 10) \o <<DigitChar(n % 10)>>

RECURSIVE JoinStrings(_)
JoinStrings(parts) ==
    IF parts = <<>> THEN <<>>
    ELSE IF Len(parts) = 1 THEN parts[1]
    ELSE parts[1] \o <<",">> \o JoinStrings(Tail(parts))

RECURSIVE JsString(_)
\* String(x)
JsString(x) ==
    CASE x.t = "string" -> x.v
      [] x.t = "number" -> IF x.v < 0 THEN <<"-">> \o Decimal(-x.v) ELSE Decimal(x.v)
      [] x.t = "NaN" -> <<"N","a","N">>
      [] x.t = "undefined" -> <<"u","n","d","e","f","i","n","e","d">>
      [] x.t = "null" -> <<"n","u","l","l">>
      [] x.t = "boolean" -> IF x.v THEN <<"t","r","u","e">> ELSE <<"f","a","l","s","e">>
      [] x.t = "array" ->
           JoinStrings([i \in 1..Len(x.v) |->
               IF x.v[i].t \in {"undefined", "null"} THEN <<>> ELSE JsString(x.v[i])])
      [] OTHER -> <<"[","o","b","j","e","c","t"," ","O","b","j","e","c","t","]">>

\* the value of the digits ds read after the value acc
DigitsValue(ds, acc) == Reduce(LAMBDA n, c : n * 10 + DigitVal(c), ds, 1, Len(ds), acc)

\* parseInt(x): leading blanks, an optional sign, then the leading run of
\* decimal digits of String(x); NaN without a digit
parseInt(x) ==
    With(JsString(x), LAMBDA s :
    With(1 + RunLen(s, 1, In(Space)), LAMBDA b :
    With(IF b <= Len(s) /\ s[b] \in {"-", "+"} THEN b + 1 ELSE b, LAMBDA d :
    With(RunLen(s, d, In(Digit)), LAMBDA n :
        IF n = 0 THEN NaN
        ELSE IF s[b] = "-" THEN Num(-DigitsValue(SubSeq(s, d, d + n - 1), 0))
        ELSE Num(DigitsValue(SubSeq(s, d, d + n - 1), 0))))))

(***************************************************************************)
(* JSON.parse, for the JSON the modelled pages hold: objects, arrays,      *)
(* strings with the one-character escapes, integers, true, false, null.    *)
(* The outcome is [ok |-> TRUE, v |-> value] or, for a SyntaxError,        *)
(* [ok |-> FALSE].                                                         *)
(***************************************************************************)
JsonFail == [ok |-> FALSE]
JsonWs == {" ", "\t", "\n", "\r"}
SkipWs(s, i) == i + RunLen(s, i, In(JsonWs))

\* the character an escape \c stands for
Unescape(c) ==
    CASE c = "n" -> "\n" [] c = "t" -> "\t" [] c = "r" -> "\r" [] OTHER -> c

RECURSIVE JsonStringFrom(_, _, _)
\* the rest of a string literal from position i, acc read so far
JsonStringFrom(s, i, acc) ==
    LET n == RunLen(s, i, NotIn({"\"", "\\", "\n", "\t", "\r"}))
        j == i + n
        got == acc \o SubSeq(s, i, j - 1)
    IN  IF j > Len(s) THEN JsonFail
        ELSE IF s[j] = "\"" THEN [ok |-> TRUE, v |-> Str(got), i |-> j + 1]
        ELSE IF s[j] = "\\" /\ j < Len(s) /\ s[j + 1] \in {"\"", "\\", "/", "n", "t", "r"}
             THEN JsonStringFrom(s, j + 2, Append(got, Unescape(s[j + 1])))
        ELSE JsonFail

\* -?(0|[1-9][0-9]*) at position i
JsonNumber(s, i) ==
    LET d == IF s[i] = "-" THEN i + 1 ELSE i
        n == RunLen(s, d, In(Digit))
        val == DigitsValue(SubSeq(s, d, d + n - 1), 0)
    IN  IF n = 0 \/ (n > 1 /\ s[d] = "0") THEN JsonFail
        ELSE IF d + n <= Len(s) /\ s[d + n] \in {".", "e", "E"} THEN JsonFail
        ELSE [ok |-> TRUE, v |-> Num(IF d > i THEN -val ELSE val), i |-> d + n]

JsonWord(s, i, word, value) ==
    IF i + Len(word) - 1 <= Len(s) /\ SubSeq(s, i, i + Len(word) - 1) = word
    THEN [ok |-> TRUE, v |-> value, i |-> i + Len(word)]
    ELSE JsonFail

RECURSIVE JsonValue(_, _)
RECURSIVE JsonElements(_, _, _)
RECURSIVE JsonMembers(_, _, _)
\* the value that starts at or after position i
JsonValue(s, i0) ==
    LET i == SkipWs(s, i0) IN
    IF i > Len(s) THEN JsonFail
    ELSE CASE s[i] = "{" ->
                LET j == SkipWs(s, i + 1)
                IN  IF j <= Len(s) /\ s[j] = "}"
                    THEN [ok |-> TRUE, v |-> Obj(<<>>), i |-> j + 1]
                    ELSE JsonMembers(s, j, <<>>)
           [] s[i] = "[" ->
                LET j == SkipWs(s, i + 1)
                IN  IF j <= Len(s) /\ s[j] = "]"
                    THEN [ok |-> TRUE, v |-> Arr(<<>>), i |-> j + 1]
                    ELSE JsonElements(s, j, <<>>)
           [] s[i] = "\"" -> JsonStringFrom(s, i + 1, <<>>)
           [] s[i] \in Digit \cup {"-"} -> JsonNumber(s, i)
           [] s[i] = "t" -> JsonWord(s, i, <<"t","r","u","e">>, Bool(TRUE))
           [] s[i] = "f" -> JsonWord(s, i, <<"f","a","l","s","e">>, Bool(FALSE))
           [] s[i] = "n" -> JsonWord(s, i, <<"n","u","l","l">>, Null)
           [] OTHER -> JsonFail

\* the elements of an array from position i on, acc read so far
JsonElements(s, i, acc) ==
    LET e == JsonValue(s, i) IN
    IF ~e.ok THEN JsonFail
    ELSE LET j == SkipWs(s, e.i) IN
         IF j > Len(s) THEN JsonFail
         ELSE IF s[j] = "]" THEN [ok |-> TRUE, v |-> Arr(Append(acc, e.v)), i |-> j + 1]
         ELSE IF s[j] = "," THEN JsonElements(s, j + 1, Append(acc, e.v))
         ELSE JsonFail

\* the members of an object from position i on, acc read so far; a repeated
\* key keeps its last value
JsonMembers(s, i0, acc) ==
    LET i == SkipWs(s, i0) IN
    IF i > Len(s) \/ s[i] # "\"" THEN JsonFail
    ELSE LET key == JsonStringFrom(s, i + 1, <<>>) IN
         IF ~key.ok THEN JsonFail
         ELSE LET c == SkipWs(s, key.i) IN
              IF c > Len(s) \/ s[c] # ":" THEN JsonFail
              ELSE LET e == JsonValue(s, c + 1) IN
                   IF ~e.ok THEN JsonFail
                   ELSE LET j == SkipWs(s, e.i)
                            got == (key.v.v :> e.v) @@ acc
                        IN  IF j > Len(s) THEN JsonFail
                            ELSE IF s[j] = "}" THEN [ok |-> TRUE, v |-> Obj(got), i |-> j + 1]
                            ELSE IF s[j] = "," THEN JsonMembers(s, j + 1, got)
                            ELSE JsonFail

\* JSON.parse(text)
JSONparse(s) ==
    LET r == JsonValue(s, 1)
    IN  IF r.ok /\ SkipWs(s, r.i) > Len(s) THEN [ok |-> TRUE, v |-> r.v] ELSE JsonFail

(***************************************************************************)
(* The repair applied to an extracted JSON text before JSON.parse          *)
(***************************************************************************)
\* /,\s*]/g -> ']'
TrailingCommaBracketRe == <<Lit(<<",">>), Rep(In(Space), 0, FALSE), Lit(<<"]">>)>>
\* /,\s*}/g -> '}'
TrailingCommaBraceRe == <<Lit(<<",">>), Rep(In(Space), 0, FALSE), Lit(<<"}">>)>>
\* /([{,])\s*([a-zA-Z_][a-zA-Z0-9_]*):/g -> '$1"$2":'
UnquotedKeyRe ==
    <<Open(1), One(In({"{", ","})), Close(1), Rep(In(Space), 0, FALSE),
      Open(2), One(In(Lower \cup Upper \cup {"_"})),
      Rep(In(Lower \cup Upper \cup Digit \cup {"_"}), 0, FALSE), Close(2), Lit(<<":">>)>>
QuotedKeyTpl == <<TGrp(1), TLit(<<"\"">>), TGrp(2), TLit(<<"\"", ":">>)>>

StripCommaBracket(s) == ReplaceAll(TrailingCommaBracketRe, <<TLit(<<"]">>)>>, s)
StripCommaBrace(s) == ReplaceAll(TrailingCommaBraceRe, <<TLit(<<"}">>)>>, s)
QuoteKeys_Off(s) == s
QuoteKeys(s) == ReplaceAll(UnquotedKeyRe, QuotedKeyTpl, s)


(***************************************************************************)
(* utils.js                                                                *)
(***************************************************************************)
CdnHost == <<"x","h","p","i","n","g","c","d","n",".","c","o","m">>

formatThumbnailUrl_AlwaysEscape(url) ==
    IF ~Truthy(url) THEN url
    ELSE IF ~IsStr(url) THEN TypeError
    ELSE Str(ReplaceAll(<<Lit(<<",">>)>>, <<TLit(<<"%","2","C">>)>>,
             ReplaceAll(<<Lit(<<")">>)>>, <<TLit(<<"%","2","9">>)>>,
             ReplaceAll(<<Lit(<<"(">>)>>, <<TLit(<<"%","2","8">>)>>, url.v))))

formatThumbnailUrl_NoComma(url) ==
    IF ~Truthy(url) THEN url
    ELSE IF ~IsStr(url) THEN TypeError
    ELSE IF ~Includes(url.v, CdnHost) THEN url
    ELSE Str(ReplaceAll(<<Lit(<<")">>)>>, <<TLit(<<"%","2","9">>)>>,
             ReplaceAll(<<Lit(<<"(">>)>>, <<TLit(<<"%","2","8">>)>>, url.v)))

\* Encode thumbnail URLs for xhpingcdn
formatThumbnailUrl(url) ==
    IF ~Truthy(url) THEN url
    ELSE IF url.t = "array"
         THEN IF \E i \in 1..Len(url.v) : url.v[i] = Str(CdnHost) THEN TypeError ELSE url
    ELSE IF ~IsStr(url) THEN TypeError
    ELSE IF ~Includes(url.v, CdnHost) THEN url
    ELSE Str(ReplaceAll(<<Lit(<<",">>)>>, <<TLit(<<"%","2","C">>)>>,
             ReplaceAll(<<Lit(<<")">>)>>, <<TLit(<<"%","2","9">>)>>,
             ReplaceAll(<<Lit(<<"(">>)>>, <<TLit(<<"%","2","8">>)>>, url.v))))

\* /\/videos\/([^\/]+)/
VideoPathRe == <<Lit(<<"/","v","i","d","e","o","s","/">>), Open(1), Rep(NotIn({"/"}), 1, FALSE), Close(1)>>

extractVideoPath_NoPrefix(fullUrl) ==
    IF ~Truthy(fullUrl) THEN Str(<<>>)
    ELSE IF ~IsStr(fullUrl) THEN TypeError
    ELSE With(Search(VideoPathRe, fullUrl.v, 1), LAMBDA match :
             IF match.ok THEN Str(Group(fullUrl.v, match, 1)) ELSE Str(<<>>))

extractVideoPath_KeepUnmatched(fullUrl) ==
    IF ~Truthy(fullUrl) THEN Str(<<>>)
    ELSE IF ~IsStr(fullUrl) THEN TypeError
    ELSE With(Search(VideoPathRe, fullUrl.v, 1), LAMBDA match :
             IF match.ok THEN Str(<<"v","i","d","e","o","s","/">> \o Group(fullUrl.v, match, 1)) ELSE fullUrl)

\* Extract video path from full URL
extractVideoPath(fullUrl) ==
    IF ~Truthy(fullUrl) THEN Str(<<>>)
    ELSE IF ~IsStr(fullUrl) THEN TypeError
    ELSE With(Search(VideoPathRe, fullUrl.v, 1), LAMBDA match :
             IF match.ok THEN Str(<<"v","i","d","e","o","s","/">> \o Group(fullUrl.v, match, 1)) ELSE Str(<<>>))

\* property names
kId == <<"i","d">>
kTitle == <<"t","i","t","l","e">>
kDuration == <<"d","u","r","a","t","i","o","n">>
kCreated == <<"c","r","e","a","t","e","d">>
kVideoType == <<"v","i","d","e","o","T","y","p","e">>
kPageURL == <<"p","a","g","e","U","R","L">>
kThumbURL == <<"t","h","u","m","b","U","R","L">>
kPreviewThumbURL == <<"p","r","e","v","i","e","w","T","h","u","m","b","U","R","L">>
kImageURL == <<"i","m","a","g","e","U","R","L">>
kSpriteURL == <<"s","p","r","i","t","e","U","R","L">>
kTrailerURL == <<"t","r","a","i","l","e","r","U","R","L">>
kTrailerFallbackUrl == <<"t","r","a","i","l","e","r","F","a","l","l","b","a","c","k","U","r","l">>
kViews == <<"v","i","e","w","s">>
kLanding == <<"l","a","n","d","i","n","g">>
kType == <<"t","y","p","e">>
kName == <<"n","a","m","e">>
kLogo == <<"l","o","g","o">>
kLink == <<"l","i","n","k">>
kIsThumbCustom == <<"i","s","T","h","u","m","b","C","u","s","t","o","m">>
kIsAdminCustomThumb == <<"i","s","A","d","m","i","n","C","u","s","t","o","m","T","h","u","m","b">>
kUserCountry == <<"u","s","e","r","C","o","u","n","t","r","y">>
kAttributes == <<"a","t","t","r","i","b","u","t","e","s">>
kClasses == <<"c","l","a","s","s","e","s">>

\* x ? parseInt(x) : dflt
ParseIntOr(x, dflt) == IF Truthy(x) THEN parseInt(x) ELSE dflt
\* x ? x.trim() : ''   (x a string or falsy)
TrimOrEmpty(x) == IF Truthy(x) THEN Str(Trim(x.v)) ELSE Str(<<>>)
\* x ? formatThumbnailUrl(x.trim()) : ''
FormatOrEmpty(x) == IF Truthy(x) THEN formatThumbnailUrl(Str(Trim(x.v))) ELSE Str(<<>>)

\* the properties cleanVideoData calls .trim() on when they are truthy
TrimmedKeys == {kTitle, kThumbURL, kPreviewThumbURL, kImageURL, kSpriteURL,
                kTrailerURL, kTrailerFallbackUrl}

\* the record cleanVideoData builds from a video whose trimmed page URL is
\* fullPageURL
CleanedRecord(video, fullPageURL) ==
    LET landing == Get(video, kLanding)
    IN  [t |-> "video",
         id |-> ParseIntOr(Get(video, kId), Undef),
         title |-> TrimOrEmpty(Get(video, kTitle)),
         duration |-> ParseIntOr(Get(video, kDuration), Undef),
         created |-> ParseIntOr(Get(video, kCreated), Undef),
         videoType |-> Or(Get(video, kVideoType), Str(<<"v","i","d","e","o">>)),
         pageURL |-> extractVideoPath(Str(fullPageURL)),
         thumbURL |-> FormatOrEmpty(Get(video, kThumbURL)),
         previewThumbURL |-> TrimOrEmpty(Get(video, kPreviewThumbURL)),
         imageURL |-> FormatOrEmpty(Get(video, kImageURL)),
         spriteURL |-> TrimOrEmpty(Get(video, kSpriteURL)),
         trailerURL |-> TrimOrEmpty(Get(video, kTrailerURL)),
         trailerFallbackUrl |-> TrimOrEmpty(Get(video, kTrailerFallbackUrl)),
         views |-> ParseIntOr(Get(video, kViews), Num(0)),
         landing |-> IF Truthy(landing)
                     THEN Obj((kType :> Get(landing, kType))
                           @@ (kId :> ParseIntOr(Get(landing, kId), Undef))
                           @@ (kName :> Or(Get(landing, kName), Str(<<>>)))
                           @@ (kLogo :> Or(Get(landing, kLogo), Str(<<>>)))
                           @@ (kLink :> Or(Get(landing, kLink), Str(<<>>))))
                     ELSE Undef,
         isThumbCustom |-> Or(Get(video, kIsThumbCustom), Bool(FALSE)),
         isAdminCustomThumb |-> Or(Get(video, kIsAdminCustomThumb), Bool(FALSE)),
         userCountry |-> Or(Get(video, kUserCountry), Str(<<>>)),
         attributes |-> Or(Get(video, kAttributes), Obj(<<>>)),
         classes |-> Or(Get(video, kClasses), Str(<<>>))]

\* Strict validation - ALL essential fields must be present and valid
hasValidId(cleaned) == IsNum(cleaned.id) /\ cleaned.id.v > 0
hasValidTitle(cleaned) == Truthy(cleaned.title) /\ Len(cleaned.title.v) > 0
hasValidDuration(cleaned) == IsNum(cleaned.duration) /\ cleaned.duration.v > 0
hasValidPageURL(cleaned) == Truthy(cleaned.pageURL) /\ Len(cleaned.pageURL.v) > 0
hasValidThumbURL(cleaned) == Truthy(cleaned.thumbURL) /\ Len(cleaned.thumbURL.v) > 0
hasValidViews_AnyNumber(cleaned) == IsNum(cleaned.views)
hasValidViews(cleaned) == IsNum(cleaned.views) /\ cleaned.views.v >= 0

AllValid(cleaned) ==
    /\ hasValidId(cleaned) /\ hasValidTitle(cleaned) /\ hasValidDuration(cleaned)
    /\ hasValidPageURL(cleaned) /\ hasValidThumbURL(cleaned) /\ hasValidViews(cleaned)

\* Clean video object with strict validation.  The outcome is the cleaned
\* record, null, or the TypeError of reading a property of null/undefined or
\* of calling .trim() on a truthy value that is no string.
cleanVideoData(video) ==
    IF video.t \in {"undefined", "null"} THEN TypeError
    ELSE IF Truthy(Get(video, kPageURL)) /\ ~IsStr(Get(video, kPageURL)) THEN TypeError
    ELSE With(IF Truthy(Get(video, kPageURL)) THEN Trim(Get(video, kPageURL).v) ELSE <<>>,
              LAMBDA fullPageURL :
             IF ~Includes(fullPageURL, <<"/","v","i","d","e","o","s","/">>) THEN Null
             ELSE IF \E k \in TrimmedKeys : Truthy(Get(video, k)) /\ ~IsStr(Get(video, k))
                  THEN TypeError
             ELSE With(CleanedRecord(video, fullPageURL), LAMBDA cleaned :
                      IF AllValid(cleaned) THEN cleaned ELSE Null))


(***************************************************************************)
(* A fetched page.  head is its markup before the script elements; scripts *)
(* are the contents of its script elements, in document order; cards are   *)
(* the elements its video-card selectors match, each with the text or      *)
(* attribute (or undefined) that the handler's queries find in it; dom     *)
(* gives, for a selector, the attribute or text of the first element it    *)
(* matches; paginator is the paginator's buttons: the data-page attribute  *)
(* of the first active one, those of the other buttons, and whether the    *)
(* next and prev links are there.  The page's text, for the patterns that  *)
(* scan all of it, is head and then the script elements.                   *)
(***************************************************************************)
ScriptOpen == <<"<","s","c","r","i","p","t",">">>
ScriptClose == <<"<","/","s","c","r","i","p","t",">">>

RawHtml(html) ==
    html.head \o Flatten([i \in 1..Len(html.scripts) |-> ScriptOpen \o html.scripts[i] \o ScriptClose])

\* array.map(cleanVideoData).filter(v => v !== null); a throwing call ends the
\* whole expression
CleanAll(videos) ==
    With(Table([i \in 1..Len(videos) |-> cleanVideoData(videos[i])]), LAMBDA mapped :
        IF \E i \in 1..Len(videos) : Threw(mapped[i]) THEN TypeError
        ELSE Arr(Filter(mapped, {mapped[i] : i \in 1..Len(videos)} \ {Null})))

(***************************************************************************)
(* The 32-bit hash of the fallback ids                                     *)
(***************************************************************************)
Ascii == <<" ", "!", "\"", "#", "$", "%", "&", "'", "(", ")", "*", "+", ",", "-", ".", "/",
           "0", "1", "2", "3", "4", "5", "6", "7", "8", "9", ":", ";", "<", "=", ">", "?",
           "@", "A", "B", "C", "D", "E", "F", "G", "H", "I", "J", "K", "L", "M", "N", "O",
           "P", "Q", "R", "S", "T", "U", "V", "W", "X", "Y", "Z", "[", "\\", "]", "^", "_",
           "<backquote>", "a", "b", "c", "d", "e", "f", "g", "h", "i", "j", "k", "l", "m", "n", "o",
           "p", "q", "r", "s", "t", "u", "v", "w", "x", "y", "z", "{", "|", "}", "~">>

\* b.charCodeAt(0); Ascii[i] is the character of code 31 + i
charCodeAt(c) == 31 + (CHOOSE i \in 1..Len(Ascii) : Ascii[i] = c)

\* A 32-bit integer is kept as its two 16-bit halves <<hi, lo>>, so that no
\* intermediate value leaves the range of the model's integers.
Half == 65536

\* a = ((a << 5) - a) + c; return a & a    (a*31 + c, wrapped to 32 bits)
HashStep(a, c) ==
    LET lo == a[2] * 31 + c
        hi == a[1] * 31 + (lo \div Half)
    IN  <<hi % Half, lo % Half>>

\* the signed value of the halves
Signed(a) == IF a[1] >= Half \div 2 THEN (a[1] - Half) * Half + a[2] ELSE a[1] * Half + a[2]

\* text.split('').reduce((a, b) => { a = ((a << 5) - a) + b.charCodeAt(0); return a & a }, 0)
hash(text) == Signed(Reduce(LAMBDA a, b : HashStep(a, charCodeAt(b)), text, 1, Len(text), <<0, 0>>))

\* the same round as the code writes it, on the halves: a << 5, then - a,
\* then + c, each wrapped to 32 bits, which a & a does to their sum
ShiftStep(a, c) ==
    LET shiftedLo == a[2] * 32
        shifted == <<(a[1] * 32 + shiftedLo \div Half) % Half, shiftedLo % Half>>
        borrow == IF shifted[2] < a[2] THEN 1 ELSE 0
        less == <<(shifted[1] - a[1] - borrow) % Half, (shifted[2] - a[2]) % Half>>
        sumLo == less[2] + c
    IN  <<(less[1] + sumLo \div Half) % Half, sumLo % Half>>

\* the hash with every round in the shift form
shiftHash(text) ==
    Signed(Reduce(LAMBDA a, b : ShiftStep(a, charCodeAt(b)), text, 1, Len(text), <<0, 0>>))


\* Math.abs
Abs(n) == IF n < 0 THEN -n ELSE n

(***************************************************************************)
(* search.js: extractSearchResults                                         *)
(***************************************************************************)
kVideoThumbProps == <<"v","i","d","e","o","T","h","u","m","b","P","r","o","p","s">>

\* /"searchResult":\s*({.*?"videoThumbProps":\s*\[.*?\]}),/s
SearchResultRe ==
    <<Lit(<<"\"","s","e","a","r","c","h","R","e","s","u","l","t","\"",":">>), Rep(In(Space), 0, FALSE),
      Open(1), Lit(<<"{">>), Rep(AnyChar, 0, TRUE), Lit(<<"\"","v","i","d","e","o","T","h","u","m","b","P","r","o","p","s","\"",":">>),
      Rep(In(Space), 0, FALSE), Lit(<<"[">>), Rep(AnyChar, 0, TRUE), Lit(<<"]","}">>), Close(1),
      Lit(<<",">>)>>

\* /<script[^>]*>([\s\S]*?)<\/script>/g
ScriptTagRe ==
    <<Lit(<<"<","s","c","r","i","p","t">>), Rep(NotIn({">"}), 0, FALSE), Lit(<<">">>),
      Open(1), Rep(AnyChar, 0, TRUE), Close(1), Lit(<<"<","/","s","c","r","i","p","t",">">>)>>

\* /"videoThumbProps":\s*(\[[\s\S]*?\])\s*\}/
ThumbPropsRe ==
    <<Lit(<<"\"","v","i","d","e","o","T","h","u","m","b","P","r","o","p","s","\"",":">>), Rep(In(Space), 0, FALSE),
      Open(1), Lit(<<"[">>), Rep(AnyChar, 0, TRUE), Lit(<<"]">>), Close(1),
      Rep(In(Space), 0, FALSE), Lit(<<"}">>)>>

\* the outcome of one strategy: the records it returns, or "next" when the
\* code goes on to the following strategy
Returned(videos) == [done |-> TRUE, videos |-> videos]
GoOn == [done |-> FALSE]

\* First try to find and parse the searchResult JSON
SearchResultStrategy(raw) ==
    With(Search(SearchResultRe, raw, 1), LAMBDA jsonMatch :
        IF ~jsonMatch.ok THEN GoOn
        ELSE With(JSONparse(QuoteKeys(StripCommaBracket(StripCommaBrace(
                      Group(raw, jsonMatch, 1))))), LAMBDA data :
                 IF ~data.ok THEN GoOn
                 ELSE IF ~(Truthy(Get(data.v, kVideoThumbProps))
                           /\ Get(data.v, kVideoThumbProps).t = "array") THEN GoOn
                 ELSE With(CleanAll(Get(data.v, kVideoThumbProps).v), LAMBDA validVideos :
                          IF Threw(validVideos) THEN GoOn ELSE Returned(validVideos.v))))

\* the outcome of the script tag fallback for the content of one tag
ScriptTagOutcome(content) ==
    With(IF Includes(content, <<"\"","v","i","d","e","o","T","h","u","m","b","P","r","o","p","s","\"">>) THEN Search(ThumbPropsRe, content, 1)
         ELSE NoMatch, LAMBDA arrayMatch :
    With(IF arrayMatch.ok
         THEN JSONparse(QuoteKeys(StripCommaBrace(StripCommaBracket(
                  Group(content, arrayMatch, 1)))))
         ELSE JsonFail, LAMBDA videosArray :
    With(IF videosArray.ok /\ videosArray.v.t = "array" THEN CleanAll(videosArray.v.v)
         ELSE TypeError, LAMBDA validVideos :
        IF Threw(validVideos) THEN GoOn ELSE Returned(validVideos.v))))

\* Fallback: Look for videoThumbProps array in any script tag; the loop
\* returns at the first tag whose array it can parse and clean
ScriptTagStrategy(raw, scriptTags) ==
    With(Table([i \in 1..Len(scriptTags) |-> ScriptTagOutcome(Group(raw, scriptTags[i], 1))]),
         LAMBDA outcome :
        LET done == {i \in 1..Len(outcome) : outcome[i].done}
        IN  IF done = {} THEN GoOn ELSE outcome[Min(done)])

\* /\/(\d+)/
SlashDigitsRe == <<Lit(<<"/">>), Open(1), Rep(In(Digit), 1, FALSE), Close(1)>>
\* /[a-zA-Z0-9]{7,}/
MinIdRun == 7
AlnumRunRe == <<Rep(In(Lower \cup Upper \cup Digit), MinIdRun, FALSE)>>
\* /[^0-9]/g
NonDigitRe == <<One(NotIn(Digit))>>

\* pageURL.split('/').pop()
LastSegment(s) ==
    LET slashes == {i \in 1..Len(s) : s[i] = "/"}
    IN  IF slashes = {} THEN s
        ELSE SubSeq(s, 1 + (CHOOSE i \in slashes : \A j \in slashes : j <= i), Len(s))

NowModulus == 1000000

\* the candidate the search handler builds from one card, or Absent when it
\* skips the card; now is Date.now()
SearchCard(card, now) ==
    LET title == IF card.title = Undef THEN Undef ELSE Str(Trim(card.title.v))
        url == IF card.href = Undef THEN Undef ELSE Str(Trim(card.href.v))
        thumbUrl == IF card.src = Undef THEN Undef ELSE Str(Trim(card.src.v))
    IN  IF ~Truthy(url) \/ ~Includes(url.v, <<"/","v","i","d","e","o","s","/">>) THEN Absent
        ELSE With(IF card.duration = Undef THEN NaN
                  ELSE parseInt(Str(Trim(card.duration.v))), LAMBDA duration :
             With(IF card.views = Undef THEN NaN
                  ELSE parseInt(Str(ReplaceAll(NonDigitRe, <<>>, card.views.v))), LAMBDA views :
                 MkObj((kTitle :> IF Truthy(title) THEN title ELSE Absent)
                    @@ (kPageURL :> url)
                    @@ (kThumbURL :> IF Truthy(thumbUrl) THEN formatThumbnailUrl(thumbUrl)
                                     ELSE Absent)
                    @@ (kDuration :> IF IsNum(duration) /\ duration.v > 0 THEN duration
                                     ELSE Absent)
                    @@ (kViews :> IF IsNum(views) /\ views.v >= 0 THEN views ELSE Absent)
                    @@ (kId :> IF \/ Search(SlashDigitsRe, url.v, 1).ok
                                  \/ Search(AlnumRunRe, url.v, 1).ok
                               THEN Num(Abs(hash(LastSegment(url.v))) + (now % NowModulus))
                               ELSE Absent))))

\* Final fallback using Cheerio: the cleaned records of the cards
CardStrategy(cards, now) ==
    With(Table([i \in 1..Len(cards) |-> SearchCard(cards[i], now)]), LAMBDA built :
    With(CleanAll(Filter(built, {built[i] : i \in 1..Len(cards)} \ {Absent})), LAMBDA cleaned :
        IF Threw(cleaned) THEN <<>> ELSE cleaned.v))

\* Extract search results safely
extractSearchResults(html, now) ==
    With(RawHtml(html), LAMBDA raw :
    With(SearchResultStrategy(raw), LAMBDA first :
        IF first.done THEN first.videos
        ELSE With(ScriptTagStrategy(raw, MatchAllFrom(ScriptTagRe, raw, 1)), LAMBDA second :
                 IF second.done THEN second.videos ELSE CardStrategy(html.cards, now))))


(***************************************************************************)
(* Queries on the parsed document                                          *)
(***************************************************************************)
\* $(sel).attr(name) for the first element sel matches; undefined without
\* such an element or attribute
Attr(html, sel) == IF sel \in DOMAIN html.dom THEN html.dom[sel] ELSE Undef
\* $(sel).first().text(); '' without such an element
Text(html, sel) == IF sel \in DOMAIN html.dom THEN html.dom[sel].v ELSE <<>>

\* \s*
Ws == Rep(In(Space), 0, FALSE)
\* /(\d+):(\d+)/
MinSecRe ==
    <<Open(1), Rep(In(Digit), 1, FALSE), Close(1), Lit(<<":">>),
      Open(2), Rep(In(Digit), 1, FALSE), Close(2)>>
\* /(\d+)/
DigitsRe == <<Open(1), Rep(In(Digit), 1, FALSE), Close(1)>>

\* parseInt(m[1]) * 60 + parseInt(m[2]) for the first MM:SS in text; Absent
\* when there is none and the property is not set
ClockSeconds(text) ==
    With(Search(MinSecRe, text, 1), LAMBDA durationMatch :
        IF durationMatch.ok
        THEN Num(parseInt(Str(Group(text, durationMatch, 1))).v * 60
                 + parseInt(Str(Group(text, durationMatch, 2))).v)
        ELSE Absent)

\* parseInt(m[1]) for the first run of digits in text; Absent without one
FirstNumber(text) ==
    With(Search(DigitsRe, text, 1), LAMBDA viewsMatch :
        IF viewsMatch.ok THEN parseInt(Str(Group(text, viewsMatch, 1))) ELSE Absent)

\* a property that was never set reads as undefined
Unset(x) == IF x = Absent THEN Undef ELSE x

(***************************************************************************)
(* details.js: extractVideoStreamUrl, extractVideoDetails, extractMetadata *)
(***************************************************************************)
\* /<link rel="preload" href="([^"]+)"[^>]*crossorigin="true">/
PreloadRe ==
    <<Lit(<<"<","l","i","n","k"," ","r","e","l","=","\"","p","r","e","l","o","a","d","\""," ","h","r","e","f","=","\"">>), Open(1), Rep(NotIn({"\""}), 1, FALSE), Close(1),
      Lit(<<"\"">>), Rep(NotIn({">"}), 0, FALSE), Lit(<<"c","r","o","s","s","o","r","i","g","i","n","=","\"","t","r","u","e","\"",">">>)>>

\* Extract video stream URL from preload link
extractVideoStreamUrl(html) ==
    With(RawHtml(html), LAMBDA raw :
    With(Search(PreloadRe, raw, 1), LAMBDA preloadMatch :
        IF preloadMatch.ok THEN Str(Group(raw, preloadMatch, 1)) ELSE Null))

kTitleLocalized == <<"t","i","t","l","e","L","o","c","a","l","i","z","e","d">>
kComments == <<"c","o","m","m","e","n","t","s">>
kRating == <<"r","a","t","i","n","g">>
kValue == <<"v","a","l","u","e">>
kDescription == <<"d","e","s","c","r","i","p","t","i","o","n">>
kDownloadFile == <<"d","o","w","n","l","o","a","d","F","i","l","e">>
kIsVR == <<"i","s","V","R">>
kIsHD == <<"i","s","H","D">>
kIsFHD == <<"i","s","F","H","D">>
kIsUHD == <<"i","s","U","H","D">>
kAuthor == <<"a","u","t","h","o","r">>
kVerified == <<"v","e","r","i","f","i","e","d">>

\* [^}]*
ToBrace == Rep(NotIn({"}"}), 0, FALSE)

\* /"videoModel":\s*({[^}]*(?:{[^}]*}[^}]*)*})/
VideoModelRe ==
    <<Lit(<<"\"","v","i","d","e","o","M","o","d","e","l","\"",":">>), Ws, Open(1), Lit(<<"{">>), ToBrace,
      Star(<<Lit(<<"{">>), ToBrace, Lit(<<"}">>), ToBrace>>), Lit(<<"}">>), Close(1)>>

\* JSON.parse of the repaired videoModel text of one script, where the script
\* has one and it parses
ParsedModel(content) ==
    With(IF content # <<>> /\ Includes(content, <<"\"","v","i","d","e","o","M","o","d","e","l","\"">>)
         THEN Search(VideoModelRe, content, 1)
         ELSE NoMatch, LAMBDA videoModelMatch :
        IF videoModelMatch.ok
        THEN JSONparse(QuoteKeys(StripCommaBracket(StripCommaBrace(
                 Group(content, videoModelMatch, 1)))))
        ELSE JsonFail)

\* $('script').each: the videoModel the loop ends with, that of the last
\* script that assigns one, or null
VideoModelFrom(scripts) ==
    With(Table([i \in 1..Len(scripts) |-> ParsedModel(scripts[i])]), LAMBDA parsed :
        LET assigned == {i \in 1..Len(parsed) : parsed[i].ok}
        IN  IF assigned = {} THEN Null ELSE parsed[Max(assigned)].v)

\* the details returned for a parsed videoModel, or the TypeError of passing
\* a pageURL or thumbURL that is no string to the utilities
ModelDetails(videoModel) ==
    With(extractVideoPath(Or(Get(videoModel, kPageURL), Str(<<>>))), LAMBDA pageURL :
    With(formatThumbnailUrl(Or(Get(videoModel, kThumbURL), Str(<<>>))), LAMBDA thumbURL :
    LET rating == Get(videoModel, kRating)
        author == Get(videoModel, kAuthor)
    IN  IF Threw(pageURL) \/ Threw(thumbURL) THEN TypeError
        ELSE [t |-> "details",
              id |-> ParseIntOr(Get(videoModel, kId), Undef),
              title |-> Or(Or(Get(videoModel, kTitle), Get(videoModel, kTitleLocalized)), Str(<<>>)),
              duration |-> ParseIntOr(Get(videoModel, kDuration), Undef),
              created |-> ParseIntOr(Get(videoModel, kCreated), Undef),
              views |-> ParseIntOr(Get(videoModel, kViews), Num(0)),
              comments |-> ParseIntOr(Get(videoModel, kComments), Num(0)),
              rating |-> Or(IF rating.t \in {"undefined", "null"} THEN Undef
                            ELSE Get(rating, kValue), Num(0)),
              description |-> Or(Get(videoModel, kDescription), Str(<<>>)),
              pageURL |-> pageURL,
              thumbURL |-> thumbURL,
              previewThumbURL |-> Or(Get(videoModel, kPreviewThumbURL), Str(<<>>)),
              spriteURL |-> Or(Get(videoModel, kSpriteURL), Str(<<>>)),
              trailerURL |-> Or(Get(videoModel, kTrailerURL), Str(<<>>)),
              downloadFile |-> Or(Get(videoModel, kDownloadFile), Str(<<>>)),
              isVR |-> Or(Get(videoModel, kIsVR), Bool(FALSE)),
              isHD |-> Or(Get(videoModel, kIsHD), Bool(FALSE)),
              isFHD |-> Or(Get(videoModel, kIsFHD), Bool(FALSE)),
              isUHD |-> Or(Get(videoModel, kIsUHD), Bool(FALSE)),
              author |-> IF Truthy(author)
                         THEN Obj((kId :> Get(author, kId))
                               @@ (kName :> Or(Get(author, kName), Str(<<>>)))
                               @@ (kPageURL :> Or(Get(author, kPageURL), Str(<<>>)))
                               @@ (kVerified :> Or(Get(author, kVerified), Bool(FALSE))))
                         ELSE Null]))

\* Fallback: Extract from HTML elements using Cheerio; now is Date.now()
DomDetails(html, now) ==
    With(extractVideoPath(Or(Attr(html, "link[rel=canonical]"), Str(<<>>))), LAMBDA pageURL :
    LET durationText == Trim(Text(html, ".duration"))
        viewsText == Trim(Text(html, ".views"))
    IN  [t |-> "details",
         title |-> Or(Or(Attr(html, "og:title"), Str(Trim(Text(html, "h1")))), Str(<<>>)),
         description |-> Or(Attr(html, "og:description"), Str(<<>>)),
         thumbURL |-> formatThumbnailUrl(Or(Attr(html, "og:image"), Str(<<>>))),
         pageURL |-> pageURL,
         duration |-> Unset(ClockSeconds(durationText)),
         views |-> Unset(FirstNumber(viewsText)),
         id |-> IF Truthy(pageURL)
                THEN With(Search(AlnumRunRe, pageURL.v, 1), LAMBDA idMatch :
                         IF idMatch.ok
                         THEN Num(Abs(hash(SubSeq(pageURL.v, idMatch.start, idMatch.end - 1))))
                         ELSE Undef)
                ELSE Undef,
         created |-> Num(now),
         comments |-> Num(0),
         rating |-> Num(0),
         isVR |-> Bool(FALSE),
         isHD |-> Bool(FALSE),
         isFHD |-> Bool(FALSE),
         isUHD |-> Bool(FALSE),
         author |-> Null])

\* Extract video details from videoModel using Cheerio: the details, or null
\* when the extraction threw
extractVideoDetails(html, now) ==
    With(VideoModelFrom(html.scripts), LAMBDA videoModel :
        IF Truthy(videoModel)
        THEN With(ModelDetails(videoModel), LAMBDA details :
                 IF Threw(details) THEN Null ELSE details)
        ELSE DomDetails(html, now))

\* value ? extractVideoPath(value) : value
ShortIfSet(value) == IF Truthy(value) THEN extractVideoPath(value) ELSE value

\* Extract metadata from HTML meta tags
extractMetadata(html) ==
    LET image == Or(Attr(html, "og:image"), Str(<<>>))
    IN  [title |-> Or(Attr(html, "og:title"), Str(<<>>)),
         description |-> Or(Attr(html, "og:description"), Str(<<>>)),
         image |-> IF Truthy(image) THEN formatThumbnailUrl(image) ELSE image,
         url |-> ShortIfSet(Or(Attr(html, "og:url"), Str(<<>>))),
         siteName |-> Or(Attr(html, "og:site_name"), Str(<<>>)),
         type |-> Or(Attr(html, "og:type"), Str(<<>>)),
         twitterCard |-> Or(Attr(html, "twitter:card"), Str(<<>>)),
         twitterSite |-> Or(Attr(html, "twitter:site"), Str(<<>>)),
         twitterCreator |-> Or(Attr(html, "twitter:creator"), Str(<<>>)),
         canonical |-> ShortIfSet(Or(Attr(html, "link[rel=canonical]"), Str(<<>>))),
         ampUrl |-> ShortIfSet(Or(Attr(html, "link[rel=amphtml]"), Str(<<>>)))]

(***************************************************************************)
(* details.js: parseVideoArray                                             *)
(***************************************************************************)
\* [^}]*?
Gap == Rep(NotIn({"}"}), 0, TRUE)
\* "name":\s*"([^"]*)" with capture group n
QuotedField(name, n) ==
    <<Lit(<<"\"">> \o name \o <<"\"",":">>), Ws, Lit(<<"\"">>), Open(n), Rep(NotIn({"\""}), 0, FALSE), Close(n),
      Lit(<<"\"">>)>>
\* "name":\s*(\d+) with capture group n
DigitsField(name, n) ==
    <<Lit(<<"\"">> \o name \o <<"\"",":">>), Ws, Open(n), Rep(In(Digit), 1, FALSE), Close(n)>>

\* /"id":\s*(\d+)[^}]*?"title":\s*"([^"]*)"[^}]*?"pageURL":\s*"([^"]*)"[^}]*?
\*  "thumbURL":\s*"([^"]*)"[^}]*?"duration":\s*(\d+)/g
WithIdRe ==
    DigitsField(kId, 1) \o <<Gap>> \o QuotedField(kTitle, 2) \o <<Gap>>
    \o QuotedField(kPageURL, 3) \o <<Gap>> \o QuotedField(kThumbURL, 4) \o <<Gap>>
    \o DigitsField(kDuration, 5)
\* the same followed by [^}]*?"views":\s*(\d+)
videoRegex == WithIdRe \o <<Gap>> \o DigitsField(kViews, 6)
\* /"title":\s*"([^"]*)"[^}]*?"pageURL":\s*"([^"]*)"[^}]*?"thumbURL":\s*"([^"]*)"
\*  [^}]*?"duration":\s*(\d+)/g
NoIdRe ==
    QuotedField(kTitle, 1) \o <<Gap>> \o QuotedField(kPageURL, 2) \o <<Gap>>
    \o QuotedField(kThumbURL, 3) \o <<Gap>> \o DigitsField(kDuration, 4)

\* video && video.id && video.title && video.pageURL
HasIdTitleUrl(video) ==
    /\ Truthy(video)
    /\ Truthy(Get(video, kId))
    /\ Truthy(Get(video, kTitle))
    /\ Truthy(Get(video, kPageURL))

\* the elements of a that satisfy Keep
Select(a, Keep(_)) ==
    With(Table(a), LAMBDA all : Filter(all, {v \in {all[i] : i \in 1..Len(all)} : Keep(v)}))

\* the video built from one match of videoRegex
RegexVideo(s, match) ==
    Obj((kId :> parseInt(Str(Group(s, match, 1))))
     @@ (kTitle :> Str(Group(s, match, 2)))
     @@ (kPageURL :> Str(Group(s, match, 3)))
     @@ (kThumbURL :> Str(Group(s, match, 4)))
     @@ (kDuration :> parseInt(Str(Group(s, match, 5))))
     @@ (kViews :> parseInt(Str(Group(s, match, 6)))))

\* video.id && video.title && video.pageURL && video.thumbURL && video.duration
\* && video.views
AllSixTruthy(video) ==
    \A k \in {kId, kTitle, kPageURL, kThumbURL, kDuration, kViews} : Truthy(Get(video, k))

\* Manual parsing fallback - look for individual video objects
RegexPass(videosArrayStr) ==
    With(MatchAllFrom(videoRegex, videosArrayStr, 1), LAMBDA matches :
        Select([i \in 1..Len(matches) |-> RegexVideo(videosArrayStr, matches[i])], AllSixTruthy))

\* the videos pushed for one complete object text
ObjectVideos(objStr) ==
    With(JSONparse(QuoteKeys(Trim(objStr))), LAMBDA videoObj :
        IF videoObj.ok /\ HasIdTitleUrl(videoObj.v) THEN <<videoObj.v>> ELSE <<>>)

\* manual bracket counting: one round of the for loop, at position i, on the
\* loop's variables st; objectStart is 0 where the code has -1, and objects
\* holds the places <<objectStart, i>> of the complete objects met
BracketStep(s, st, i) ==
    IF st.escaped THEN [st EXCEPT !.escaped = FALSE]
    ELSE IF s[i] = "\\" THEN [st EXCEPT !.escaped = TRUE]
    ELSE LET inString == IF s[i] = "\"" THEN ~st.inString ELSE st.inString
         IN  IF inString \/ s[i] \notin {"{", "}"} THEN [st EXCEPT !.inString = inString]
             ELSE IF s[i] = "{"
             THEN [st EXCEPT !.inString = inString,
                             !.objectStart = IF st.bracketCount = 0 THEN i ELSE @,
                             !.bracketCount = @ + 1]
             ELSE IF st.bracketCount - 1 = 0 /\ st.objectStart # 0
             THEN [st EXCEPT !.inString = inString,
                             !.bracketCount = @ - 1,
                             !.objects = Append(@, <<st.objectStart, i>>),
                             !.objectStart = 0]
             ELSE [st EXCEPT !.inString = inString, !.bracketCount = @ - 1]

\* the video objects the for loop over the characters of s collects: those
\* pushed for each complete object, in the order the loop meets them
BracketLoop(s) ==
    With(Reduce(LAMBDA st, i : BracketStep(s, st, i), [i \in 1..Len(s) |-> i], 1, Len(s),
                [escaped |-> FALSE, inString |-> FALSE, bracketCount |-> 0, objectStart |-> 0,
                 objects |-> <<>>]).objects, LAMBDA objects :
        Flatten([k \in 1..Len(objects) |->
                    ObjectVideos(SubSeq(s, objects[k][1], objects[k][2]))]))

\* Helper function to parse video array from JSON string
parseVideoArray(videosArrayStr) ==
    With(JSONparse(QuoteKeys(StripCommaBrace(StripCommaBracket(Trim(videosArrayStr))))),
         LAMBDA videosArray :
        IF videosArray.ok /\ videosArray.v.t = "array"
        THEN Select(videosArray.v.v, HasIdTitleUrl)
        ELSE With(RegexPass(videosArrayStr), LAMBDA videoObjects :
                 IF videoObjects # <<>> THEN videoObjects
                 ELSE BracketLoop(videosArrayStr)))

(***************************************************************************)
(* details.js: extractRelatedVideos                                        *)
(***************************************************************************)
\* /"videoTabInitialData":\s*\{[^}]*"videoListProps":\s*\{[^}]*
\*  "videoThumbProps":\s*(\[[\s\S]*?\])\s*\}/
VideoTabRe ==
    <<Lit(<<"\"","v","i","d","e","o","T","a","b","I","n","i","t","i","a","l","D","a","t","a","\"",":">>), Ws, Lit(<<"{">>), ToBrace,
      Lit(<<"\"","v","i","d","e","o","L","i","s","t","P","r","o","p","s","\"",":">>), Ws, Lit(<<"{">>), ToBrace>> \o ThumbPropsRe
\* /"relatedVideosComponent":\s*\{[^}]*"videoTabInitialData":\s*\{[^}]*
\*  "videoListProps":\s*\{[^}]*"videoThumbProps":\s*(\[[\s\S]*?\])\s*\}/
RelatedComponentRe ==
    <<Lit(<<"\"","r","e","l","a","t","e","d","V","i","d","e","o","s","C","o","m","p","o","n","e","n","t","\"",":">>), Ws, Lit(<<"{">>), ToBrace>> \o VideoTabRe

\* $('script').each: the videos of every script element that holds marker
\* and matches re
ScriptMethod(scripts, marker, re) ==
    Flatten([i \in 1..Len(scripts) |->
        IF scripts[i] # <<>> /\ Includes(scripts[i], marker)
        THEN With(Search(re, scripts[i], 1), LAMBDA dataMatch :
                 IF dataMatch.ok THEN parseVideoArray(Group(scripts[i], dataMatch, 1))
                 ELSE <<>>)
        ELSE <<>>])

\* Method 4: the video built from one card, or Absent when it is not added
RelatedCard(card) ==
    LET title == IF card.title = Undef THEN Undef ELSE Str(Trim(card.title.v))
        url == IF card.href = Undef THEN Undef ELSE Str(Trim(card.href.v))
        pageURL == IF Truthy(url) /\ Includes(url.v, <<"/","v","i","d","e","o","s","/">>) THEN url ELSE Absent
    IN  With(IF card.src = Undef THEN Absent ELSE formatThumbnailUrl(Str(Trim(card.src.v))),
             LAMBDA thumbURL :
            IF Truthy(title) /\ pageURL # Absent /\ Truthy(Unset(thumbURL))
            THEN MkObj((kTitle :> title) @@ (kPageURL :> pageURL) @@ (kThumbURL :> thumbURL)
                    @@ (kDuration :> IF card.duration = Undef THEN Absent
                                     ELSE ClockSeconds(Trim(card.duration.v)))
                    @@ (kViews :> IF card.views = Undef THEN Absent
                                  ELSE FirstNumber(Trim(card.views.v)))
                    @@ (kId :> With(Search(AlnumRunRe, pageURL.v, 1), LAMBDA idMatch :
                                   IF idMatch.ok
                                   THEN Num(Abs(hash(SubSeq(pageURL.v, idMatch.start,
                                                            idMatch.end - 1))))
                                   ELSE Absent)))
            ELSE Absent)

\* Method 4: Extract from HTML elements using Cheerio selectors
CardMethod(cards) ==
    With(Table([i \in 1..Len(cards) |-> RelatedCard(cards[i])]), LAMBDA built :
        Filter(built, {built[i] : i \in 1..Len(cards)} \ {Absent}))

\* Method 5: the video built from one match of a pattern with the given
\* number of capture groups
PatternVideo(s, match, groups) ==
    LET m == [n \in 1..5 |-> IF n <= groups THEN Str(Group(s, match, n)) ELSE Undef]
        byId == Truthy(m[1])
    IN  Obj((kId :> IF byId THEN parseInt(m[1]) ELSE Num(Abs(Or(Num(hash(m[2].v)), Num(0)).v)))
         @@ (kTitle :> IF byId THEN m[2] ELSE m[1])
         @@ (kPageURL :> IF byId THEN m[3] ELSE m[2])
         @@ (kThumbURL :> IF byId THEN m[4] ELSE m[3])
         @@ (kDuration :> parseInt(IF byId THEN m[5] ELSE m[4])))

\* video.title && video.pageURL && video.thumbURL
\* && video.pageURL.includes('/videos/')
IsPatternVideo(video) ==
    /\ Truthy(Get(video, kTitle))
    /\ Truthy(Get(video, kPageURL))
    /\ Truthy(Get(video, kThumbURL))
    /\ Includes(Get(video, kPageURL).v, <<"/","v","i","d","e","o","s","/">>)

\* the videos one pattern adds
PatternVideos(s, pattern, groups) ==
    With(MatchAllFrom(pattern, s, 1), LAMBDA matches :
        Select([i \in 1..Len(matches) |-> PatternVideo(s, matches[i], groups)], IsPatternVideo))

\* Method 5: Look for any video data patterns in the entire HTML
PatternMethod(raw) == PatternVideos(raw, WithIdRe, 5) \o PatternVideos(raw, NoIdRe, 4)

\* the videos array before it is cleaned; methodN is the array after Method N
RelatedCandidates(html) ==
    With(ScriptMethod(html.scripts, <<"\"","r","e","l","a","t","e","d","V","i","d","e","o","s","C","o","m","p","o","n","e","n","t","\"">>, RelatedComponentRe),
         LAMBDA method1 :
    With(IF method1 = <<>> THEN ScriptMethod(html.scripts, <<"\"","v","i","d","e","o","T","a","b","I","n","i","t","i","a","l","D","a","t","a","\"">>, VideoTabRe)
         ELSE method1, LAMBDA method2 :
    With(IF method2 = <<>> THEN ScriptMethod(html.scripts, <<"\"","v","i","d","e","o","T","h","u","m","b","P","r","o","p","s","\"">>, ThumbPropsRe)
         ELSE method2, LAMBDA method3 :
    With(IF method3 = <<>> THEN CardMethod(html.cards) ELSE method3, LAMBDA method4 :
        IF method4 = <<>> THEN PatternMethod(RawHtml(html)) ELSE method4))))

\* Extract related videos using Cheerio for better HTML parsing
extractRelatedVideos(html) ==
    With(CleanAll(RelatedCandidates(html)), LAMBDA cleanedVideos :
        IF Threw(cleanedVideos) THEN <<>> ELSE cleanedVideos.v)

(***************************************************************************)
(* search.js: extractPaginationInfo                                        *)
(***************************************************************************)
\* Extract pagination info from HTML
extractPaginationInfo(html) ==
    LET activePage == html.paginator.active
        buttons == (IF activePage = Absent THEN <<>> ELSE <<activePage>>) \o html.paginator.pages
        pageNums == {parseInt(buttons[i]) : i \in 1..Len(buttons)}
    IN  [currentPage |-> IF activePage = Absent THEN 1 ELSE Or(parseInt(activePage), Num(1)).v,
         totalPages |-> Max({1} \cup {pageNum.v : pageNum \in {n \in pageNums : Truthy(n)}}),
         hasNext |-> html.paginator.next,
         hasPrevious |-> html.paginator.prev]


(***************************************************************************)
(* De-duplication and the response-level filter of the two handlers        *)
(***************************************************************************)
\* !video || !video.id || !video.title || !video.pageURL
SkipInvalid(video) ==
    \/ ~Truthy(video)
    \/ ~Truthy(video.id) \/ ~Truthy(video.title) \/ ~Truthy(video.pageURL)

uniqueKey_NoTitle(video) ==
    JsString(video.id) \o <<"-">> \o JsString(video.pageURL)

\* `${video.id}-${video.title}-${video.pageURL}`
uniqueKey(video) ==
    JsString(video.id) \o <<"-">> \o JsString(video.title) \o <<"-">> \o JsString(video.pageURL)

RECURSIVE RelatedLoop(_, _, _, _)
\* relatedVideos.forEach from element i on, with the keys seen and the
\* videos kept so far
RelatedLoop(videos, i, seenKeys, kept) ==
    IF i > Len(videos) THEN kept
    ELSE LET video == videos[i] IN
         IF SkipInvalid(video) THEN RelatedLoop(videos, i + 1, seenKeys, kept)
         ELSE IF uniqueKey(video) \in seenKeys THEN RelatedLoop(videos, i + 1, seenKeys, kept)
         ELSE RelatedLoop(videos, i + 1, seenKeys \cup {uniqueKey(video)}, Append(kept, video))

uniqueRelatedVideos_ByIdOnly(relatedVideos) ==
    LET first == {i \in 1..Len(relatedVideos) :
                     \A j \in 1..(i - 1) : relatedVideos[j].id # relatedVideos[i].id}
        F[i \in 0..Len(relatedVideos)] ==
            IF i = 0 THEN <<>>
            ELSE IF i \in first THEN Append(F[i - 1], relatedVideos[i]) ELSE F[i - 1]
    IN  F[Len(relatedVideos)]

\* Remove duplicates from related videos
uniqueRelatedVideos(relatedVideos) == RelatedLoop(relatedVideos, 1, {}, <<>>)

RECURSIVE SearchLoop(_, _, _, _, _, _)
\* results.forEach from element i on
SearchLoop(results, i, seenIds, seenTitles, seenUrls, kept) ==
    IF i > Len(results) THEN kept
    ELSE LET video == results[i] IN
         IF SkipInvalid(video)
         THEN SearchLoop(results, i + 1, seenIds, seenTitles, seenUrls, kept)
         ELSE IF \/ video.id \in seenIds
                 \/ video.title \in seenTitles
                 \/ video.pageURL \in seenUrls
         THEN SearchLoop(results, i + 1, seenIds, seenTitles, seenUrls, kept)
         ELSE SearchLoop(results, i + 1, seenIds \cup {video.id},
                         seenTitles \cup {video.title}, seenUrls \cup {video.pageURL},
                         Append(kept, video))

uniqueVideos_ByKeyOnly(results) == uniqueRelatedVideos(results)

\* Remove duplicates based on multiple criteria
uniqueVideos(results) == SearchLoop(results, 1, {}, {}, {}, <<>>)

\* the predicate of completeResults / completeRelatedVideos
IsComplete(video) ==
    /\ Truthy(video)
    /\ Truthy(video.id)
    /\ Truthy(video.title)
    /\ Truthy(video.duration)
    /\ Truthy(video.pageURL)
    /\ Includes(video.pageURL.v, <<"v","i","d","e","o","s","/">>)
    /\ Truthy(video.thumbURL)
    /\ video.views # Undef

completeVideos(unique) == Filter(unique, {v \in {unique[i] : i \in 1..Len(unique)} : IsComplete(v)})


(***************************************************************************)
(* The pages the upstream site may answer with: some script elements, in   *)
(* any order, in one of a few layouts.                                     *)
(***************************************************************************)
\* the embedded array of the specification's example, keys unquoted
ExampleArray ==
    <<"[","{","i","d",":","1",",","t","i","t","l","e",":","\"","A","\"",",","p","a","g","e","U","R","L",":","\"","h","t","t","p","s",":","/","/","x","/","v","i","d","e","o","s","/","a","-","1","\"",",","t","h","u","m","b","U","R","L",":","\"","h","t","t","p","s",":","/","/","c","d","n","/","x",".","j","p","g","\"",",","d","u","r","a","t","i","o","n",":","3","0",",","v","i","e","w","s",":","5","}","]">>
ExampleScript == <<"v","a","r"," ","d","=","{","\"","v","i","d","e","o","T","h","u","m","b","P","r","o","p","s","\"",":">> \o ExampleArray \o <<"}",";">>
\* a search result with a record twice, a record that differs from it in id
\* and path only, a record with a negative view count, and a trailing comma
SearchScript ==
    <<"x","=","{","\"","s","e","a","r","c","h","R","e","s","u","l","t","\"",":","{","\"","v","i","d","e","o","T","h","u","m","b","P","r","o","p","s","\"",":","[">>
    \o <<"{","\"","i","d","\"",":","2",",","\"","t","i","t","l","e","\"",":","\"","B","\"",",","\"","p","a","g","e","U","R","L","\"",":","\"","/","v","i","d","e","o","s","/","b","-","2","\"",",","\"","t","h","u","m","b","U","R","L","\"",":","\"","t","\"",",","\"","d","u","r","a","t","i","o","n","\"",":","9",",","\"","v","i","e","w","s","\"",":","0","}",",">>
    \o <<"{","\"","i","d","\"",":","2",",","\"","t","i","t","l","e","\"",":","\"","B","\"",",","\"","p","a","g","e","U","R","L","\"",":","\"","/","v","i","d","e","o","s","/","b","-","2","\"",",","\"","t","h","u","m","b","U","R","L","\"",":","\"","t","\"",",","\"","d","u","r","a","t","i","o","n","\"",":","9",",","\"","v","i","e","w","s","\"",":","0","}",",">>
    \o <<"{","\"","i","d","\"",":","4",",","\"","t","i","t","l","e","\"",":","\"","B","\"",",","\"","p","a","g","e","U","R","L","\"",":","\"","/","v","i","d","e","o","s","/","d","-","4","\"",",","\"","t","h","u","m","b","U","R","L","\"",":","\"","t","\"",",","\"","d","u","r","a","t","i","o","n","\"",":","9",",","\"","v","i","e","w","s","\"",":","1","}",",">>
    \o <<"{","\"","i","d","\"",":","3",",","\"","t","i","t","l","e","\"",":","\"","C","\"",",","\"","p","a","g","e","U","R","L","\"",":","\"","/","v","i","d","e","o","s","/","c","-","3","\"",",","\"","t","h","u","m","b","U","R","L","\"",":","\"","t","\"",",","\"","d","u","r","a","t","i","o","n","\"",":","9",",","\"","v","i","e","w","s","\"",":","-","5","}",",">>
    \o <<"]","}",",","\"","y","\"",":","2","}",";">>
\* the related-videos component, with a record twice
RelatedScript ==
    <<"{","\"","r","e","l","a","t","e","d","V","i","d","e","o","s","C","o","m","p","o","n","e","n","t","\"",":","{","\"","v","i","d","e","o","T","a","b","I","n","i","t","i","a","l","D","a","t","a","\"",":","{","\"","v","i","d","e","o","L","i","s","t","P","r","o","p","s","\"",":","{","\"","v","i","d","e","o","T","h","u","m","b","P","r","o","p","s","\"",":","[">>
    \o <<"{","\"","i","d","\"",":","5",",","\"","t","i","t","l","e","\"",":","\"","E","\"",",","\"","p","a","g","e","U","R","L","\"",":","\"","/","v","i","d","e","o","s","/","e","-","5","\"",",","\"","t","h","u","m","b","U","R","L","\"",":","\"","t","\"",",","\"","d","u","r","a","t","i","o","n","\"",":","7",",","\"","v","i","e","w","s","\"",":","3","}",",">>
    \o <<"{","\"","i","d","\"",":","5",",","\"","t","i","t","l","e","\"",":","\"","E","\"",",","\"","p","a","g","e","U","R","L","\"",":","\"","/","v","i","d","e","o","s","/","e","-","5","\"",",","\"","t","h","u","m","b","U","R","L","\"",":","\"","t","\"",",","\"","d","u","r","a","t","i","o","n","\"",":","7",",","\"","v","i","e","w","s","\"",":","3","}">>
    \o <<"]","}","}","}","}">>
\* a video model, and one whose pageURL is a number
ModelScript == <<"{","\"","v","i","d","e","o","M","o","d","e","l","\"",":","{","i","d",":","7",",","\"","t","i","t","l","e","\"",":","\"","V","\"",",","\"","p","a","g","e","U","R","L","\"",":","\"","h","t","t","p","s",":","/","/","x","/","v","i","d","e","o","s","/","v","-","7","\"",",","\"","v","i","e","w","s","\"",":","\"","1","2","\"",",","}","}">>
BadModelScript == <<"{","\"","v","i","d","e","o","M","o","d","e","l","\"",":","{","\"","p","a","g","e","U","R","L","\"",":","5","}","}">>
\* an array that is no JSON, with a record the six-field pattern finds
BrokenScript ==
    <<"{","\"","v","i","d","e","o","T","h","u","m","b","P","r","o","p","s","\"",":","[">>
    \o <<"{","\"","i","d","\"",":","6",",","\"","t","i","t","l","e","\"",":","\"","F","\"",",","\"","p","a","g","e","U","R","L","\"",":","\"","/","v","i","d","e","o","s","/","f","-","6","\"",",","\"","t","h","u","m","b","U","R","L","\"",":","\"","t","\"",",","\"","d","u","r","a","t","i","o","n","\"",":","9",",","\"","v","i","e","w","s","\"",":","2",",","\"","h","d","\"",":","y","e","s","}">>
    \o <<"]","}">>
\* an array that is no JSON, with objects only the bracket count finds
LooseScript ==
    <<"{","\"","v","i","d","e","o","T","h","u","m","b","P","r","o","p","s","\"",":","[">>
    \o <<"{","\"","i","d","\"",":","8",",","\"","t","i","t","l","e","\"",":","\"","G","\"",",","\"","p","a","g","e","U","R","L","\"",":","\"","/","v","i","d","e","o","s","/","g","-","8","\"",",","\"","t","h","u","m","b","U","R","L","\"",":","\"","t","\"",",","\"","d","u","r","a","t","i","o","n","\"",":","9","}"," ","{","\"","x","\"",":","\"","}","\"","}">>
    \o <<"]","}">>

\* a search result that parses and holds no valid record
HollowScript == <<"x","=","{","\"","s","e","a","r","c","h","R","e","s","u","l","t","\"",":","{","\"","v","i","d","e","o","T","h","u","m","b","P","r","o","p","s","\"",":","[","{","\"","i","d","\"",":","9",",","\"","t","i","t","l","e","\"",":","\"","Z","\"","}","]","}",",","\"","y","\"",":","2","}",";">>
\* an array that parses, of a valid record and a record whose title is a number
MixedScript ==
    <<"{","\"","v","i","d","e","o","T","h","u","m","b","P","r","o","p","s","\"",":","[">>
    \o <<"{","\"","i","d","\"",":","1","0",",","\"","t","i","t","l","e","\"",":","\"","M","\"",",","\"","p","a","g","e","U","R","L","\"",":","\"","/","v","i","d","e","o","s","/","m","-","1","0","\"",",","\"","t","h","u","m","b","U","R","L","\"",":","\"","t","\"",",","\"","d","u","r","a","t","i","o","n","\"",":","9",",","\"","v","i","e","w","s","\"",":","1","}",",">>
    \o <<"{","\"","i","d","\"",":","1","1",",","\"","t","i","t","l","e","\"",":","7",",","\"","p","a","g","e","U","R","L","\"",":","\"","/","v","i","d","e","o","s","/","n","-","1","1","\"",",","\"","t","h","u","m","b","U","R","L","\"",":","\"","t","\"",",","\"","d","u","r","a","t","i","o","n","\"",":","9",",","\"","v","i","e","w","s","\"",":","1","}">>
    \o <<"]","}">>

ScriptPool ==
    {ExampleScript, SearchScript, RelatedScript, ModelScript, BadModelScript, BrokenScript,
     LooseScript, HollowScript, MixedScript}

MaxScripts == 1
ScriptLists == UNION {[1..n -> ScriptPool] : n \in 0..MaxScripts}

NoPaginator == [active |-> Absent, pages |-> <<>>, next |-> FALSE, prev |-> FALSE]

GoodCard ==
    [title |-> Str(<<" ","T"," ">>), href |-> Str(<<"/","v","i","d","e","o","s","/","a","b","c","d","e","f","g","1">>),
     src |-> Str(<<"h","t","t","p","s",":","/","/","x","h","p","i","n","g","c","d","n",".","c","o","m","/","a","(","1",")",".","j","p","g">>), duration |-> Str(<<"1","2",":","3","4">>),
     views |-> Str(<<"1",",","2","3","4"," ","v","i","e","w","s">>)]
PlainCard ==
    [title |-> Str(<<"U">>), href |-> Str(<<"h","t","t","p","s",":","/","/","x","/","v","i","d","e","o","s","/","7","7","/","m","o","r","e">>), src |-> Str(<<"u",".","j","p","g">>),
     duration |-> Str(<<"9","0">>), views |-> Undef]
ForeignCard ==
    [title |-> Str(<<"W">>), href |-> Str(<<"/","u","s","e","r","s","/","u","1">>), src |-> Undef, duration |-> Undef,
     views |-> Undef]

BareLayout == [head |-> <<>>, cards |-> <<>>, dom |-> <<>>, paginator |-> NoPaginator]
FullLayout ==
    [head |-> <<"<","l","i","n","k"," ","r","e","l","=","\"","p","r","e","l","o","a","d","\""," ","h","r","e","f","=","\"","h","t","t","p","s",":","/","/","s","/","v",".","m","3","u","8","\""," ","a","s","=","\"","f","e","t","c","h","\""," ","c","r","o","s","s","o","r","i","g","i","n","=","\"","t","r","u","e","\"",">">>,
     cards |-> <<GoodCard, ForeignCard, GoodCard>>,
     dom |-> ("og:title" :> Str(<<"V">>)) @@ ("og:image" :> Str(<<"h","t","t","p","s",":","/","/","x","h","p","i","n","g","c","d","n",".","c","o","m","/","v",",","1",".","j","p","g">>))
          @@ ("link[rel=canonical]" :> Str(<<"h","t","t","p","s",":","/","/","x","/","v","i","d","e","o","s","/","a","b","c","d","e","f","g","1">>))
          @@ ("og:url" :> Str(<<"h","t","t","p","s",":","/","/","x","/","v","i","d","e","o","s","/","a","b","c","d","e","f","g","1","?","a","=","1">>))
          @@ (".duration" :> Str(<<" ","1",":","0","5"," ">>)) @@ (".views" :> Str(<<"7","7"," ","v","i","e","w","s">>)),
     paginator |-> [active |-> Str(<<"2">>), pages |-> <<Str(<<"1">>), Str(<<"2">>), Str(<<"3">>)>>,
                    next |-> TRUE, prev |-> TRUE]]
OddLayout ==
    [head |-> <<>>,
     cards |-> <<PlainCard>>,
     dom |-> ("h1" :> Str(<<" ","H"," ">>)) @@ ("link[rel=canonical]" :> Str(<<"h","t","t","p","s",":","/","/","x","/","a","b","o","u","t">>)),
     paginator |-> [active |-> Str(<<"x">>), pages |-> <<Str(<<"0">>), Undef, Str(<<"-","3">>)>>,
                    next |-> FALSE, prev |-> TRUE]]
Layouts == {BareLayout, FullLayout, OddLayout}

Page(scripts, layout) ==
    [head |-> layout.head, scripts |-> scripts, cards |-> layout.cards, dom |-> layout.dom,
     paginator |-> layout.paginator]
Pages == {Page(scripts, layout) : scripts \in ScriptLists, layout \in Layouts}


(***************************************************************************)
(* The two endpoints.  A handler runs up to its await of axios.get in one  *)
(* step and from the fetch's outcome to its response in another.           *)
(***************************************************************************)
Unreserved == Lower \cup Upper \cup Digit \cup {"-", "_", ".", "!", "~", "*", "'", "(", ")"}
HexDigit(d) == <<"0","1","2","3","4","5","6","7","8","9","A","B","C","D","E","F">>[d + 1]

\* encodeURIComponent, for ASCII text
encodeURIComponent(s) ==
    Flatten([i \in 1..Len(s) |->
        IF s[i] \in Unreserved THEN <<s[i]>>
        ELSE <<"%", HexDigit(charCodeAt(s[i]) \div 16), HexDigit(charCodeAt(s[i]) % 16)>>])

Upstream == <<"h","t","t","p","s",":","/","/","x","h","a","m","s","t","e","r","1","9",".","c","o","m","/">>

\* const { query, page = 1 } = req.params; parseInt(page) || 1
PageNum(page) == Or(parseInt(IF page = Undef THEN Num(1) ELSE page), Num(1)).v

\* Build search URL with pagination
searchUrl(query, pageNum) ==
    Upstream \o <<"s","e","a","r","c","h","/">> \o encodeURIComponent(query)
    \o (IF pageNum > 1 THEN <<"?","p","a","g","e","=">> \o Decimal(pageNum) ELSE <<>>)

\* a test of the length alone
StartsWithVideos_LongEnough(path) == Len(path) >= 7


\* path.startsWith('videos/')
StartsWithVideos(path) == Len(path) >= 7 /\ SubSeq(path, 1, 7) = <<"v","i","d","e","o","s","/">>

\* the rejection of axios.get with the given failure
Rejected(failure) == [failed |-> failure]

\* the outcomes of a fetch that fails: an upstream status, or no answer
Failures == {"404", "503", "timeout", "network"}

SearchMeta_FilteredFromFound(results, unique, completeResults) ==
    [totalFound |-> Len(results),
     uniqueVideos |-> Len(unique),
     completeVideos |-> Len(completeResults),
     duplicatesRemoved |-> Len(results) - Len(unique),
     filtered |-> Len(results) - Len(completeResults)]

\* the meta object of the search response
SearchMeta(results, unique, completeResults) ==
    [totalFound |-> Len(results),
     uniqueVideos |-> Len(unique),
     completeVideos |-> Len(completeResults),
     duplicatesRemoved |-> Len(results) - Len(unique),
     filtered |-> Len(unique) - Len(completeResults)]

\* the body of the search response for the results extracted from data
SearchBody(results, paginationInfo, pageNum) ==
    [searchResult |-> completeVideos(uniqueVideos(results)),
     pagination |-> [currentPage |-> paginationInfo.currentPage,
                     totalPages |-> paginationInfo.totalPages,
                     hasNext |-> paginationInfo.hasNext,
                     hasPrevious |-> paginationInfo.hasPrevious,
                     requestedPage |-> pageNum],
     meta |-> SearchMeta(results, uniqueVideos(results), completeVideos(uniqueVideos(results)))]

\* the meta object of the details response
RelatedMeta(relatedVideos, unique, completeRelatedVideos) ==
    [totalRelated |-> Len(relatedVideos),
     uniqueRelated |-> Len(unique),
     completeRelated |-> Len(completeRelatedVideos),
     filteredRelated |-> Len(unique) - Len(completeRelatedVideos),
     duplicatesRemoved |-> Len(relatedVideos) - Len(unique),
     extractionMethod |-> "relatedVideosComponent.videoTabInitialData.videoListProps.videoThumbProps"]

\* the body of the details response
DetailsBody(videoDetails, metadata, streamUrl, relatedVideos) ==
    [video |-> videoDetails,
     metadata |-> metadata,
     streamUrl |-> streamUrl,
     relatedVideos |-> completeVideos(uniqueRelatedVideos(relatedVideos)),
     meta |-> RelatedMeta(relatedVideos, uniqueRelatedVideos(relatedVideos),
                          completeVideos(uniqueRelatedVideos(relatedVideos)))]

\* what the details handler answers for the fetched data
DetailsResponse(data, now) ==
    With(extractVideoDetails(data, now), LAMBDA videoDetails :
        IF ~Truthy(videoDetails)
        THEN [status |-> 404, body |-> [error |-> "Video details not found"]]
        ELSE With(extractRelatedVideos(data), LAMBDA relatedVideos :
                 [status |-> 200,
                  body |-> DetailsBody(videoDetails, extractMetadata(data),
                                       extractVideoStreamUrl(data), relatedVideos)]))

\* a handler that takes an empty collection for a failure
SearchResponse_ErrorOnEmpty(data, now, pageNum) ==
    With(extractSearchResults(data, now), LAMBDA results :
        IF results = <<>>
        THEN [status |-> 500, body |-> [error |-> "Failed to fetch search results"]]
        ELSE [status |-> 200, body |-> SearchBody(results, extractPaginationInfo(data), pageNum)])


\* what the search handler answers for the fetched data
SearchResponse(data, now, pageNum) ==
    With(extractSearchResults(data, now), LAMBDA results :
        [status |-> 200, body |-> SearchBody(results, extractPaginationInfo(data), pageNum)])

Queries == {<<"a"," ","b">>}
PageParams == {Undef, Str(<<"2">>), Str(<<"x">>)}
Paths == {<<"v","i","d","e","o","s","/","a","-","1">>, <<"w","a","t","c","h","/","a","-","1">>}
Nows == {1000005, 2000007}

NoRequest == [route |-> "none"]

Init ==
    /\ pc = "idle"
    /\ req = NoRequest
    /\ outbound = <<>>
    /\ fetched = Undef
    /\ res = Pending
    /\ fn = "idle"
    /\ arg = Undef
    /\ ret = Pending
    /\ again = Pending

\* router.get('/:query/:page?') up to the await
SearchRequest ==
    /\ pc \in {"idle", "done"}
    /\ \E query \in Queries, page \in PageParams :
          /\ req' = [route |-> "search", query |-> query, page |-> page]
          /\ outbound' = <<searchUrl(query, PageNum(page))>>
    /\ pc' = "fetching"
    /\ fetched' = Undef
    /\ res' = Pending
    /\ UNCHANGED fnVars

\* the fetch resolves with a page and the handler responds
SearchRespond ==
    /\ pc = "fetching"
    /\ req.route = "search"
    /\ \E data \in Pages, now \in Nows :
          /\ fetched' = data
          /\ res' = SearchResponse(data, now, PageNum(req.page))
    /\ pc' = "done"
    /\ UNCHANGED <<req, outbound, fnVars>>

\* the fetch rejects and the handler's catch responds
SearchFetchFailed ==
    /\ pc = "fetching"
    /\ req.route = "search"
    /\ \E failure \in Failures :
          /\ fetched' = Rejected(failure)
          /\ res' = [status |-> 500,
                     body |-> [error |-> "Failed to fetch search results", message |-> failure]]
    /\ pc' = "done"
    /\ UNCHANGED <<req, outbound, fnVars>>

\* router.get('/:path(*)') up to the await, or to the response for a path
\* that does not start with videos/
DetailsRequest ==
    /\ pc \in {"idle", "done"}
    /\ \E path \in Paths :
          /\ req' = [route |-> "details", path |-> path]
          /\ IF StartsWithVideos(path)
             THEN /\ outbound' = <<Upstream \o path>>
                  /\ pc' = "fetching"
                  /\ res' = Pending
             ELSE /\ outbound' = <<>>
                  /\ pc' = "done"
                  /\ res' = [status |-> 400,
                             body |-> [error |-> "Invalid path. Must start with videos/"]]
    /\ fetched' = Undef
    /\ UNCHANGED fnVars

\* the fetch resolves with a page and the handler responds
DetailsRespond ==
    /\ pc = "fetching"
    /\ req.route = "details"
    /\ \E data \in Pages, now \in Nows :
          /\ fetched' = data
          /\ res' = DetailsResponse(data, now)
    /\ pc' = "done"
    /\ UNCHANGED <<req, outbound, fnVars>>

\* a catch that fetches once more before it gives up
DetailsFetchFailed_Retry ==
    /\ pc = "fetching"
    /\ req.route = "details"
    /\ \E failure \in Failures :
          IF Len(outbound) < 2
          THEN /\ outbound' = Append(outbound, outbound[1])
               /\ UNCHANGED <<pc, fetched, res>>
          ELSE /\ fetched' = Rejected(failure)
               /\ res' = [status |-> 500,
                          body |-> [error |-> "Failed to fetch video details",
                                    message |-> failure]]
               /\ pc' = "done"
               /\ UNCHANGED outbound
    /\ UNCHANGED <<req, fnVars>>


\* the fetch rejects and the handler's catch responds
DetailsFetchFailed ==
    /\ pc = "fetching"
    /\ req.route = "details"
    /\ \E failure \in Failures :
          /\ fetched' = Rejected(failure)
          /\ res' = IF failure = "404"
                    THEN [status |-> 404, body |-> [error |-> "Video not found"]]
                    ELSE [status |-> 500,
                          body |-> [error |-> "Failed to fetch video details",
                                    message |-> failure]]
    /\ pc' = "done"
    /\ UNCHANGED <<req, outbound, fnVars>>

Next ==
    \/ SearchRequest \/ SearchRespond \/ SearchFetchFailed
    \/ DetailsRequest \/ DetailsRespond \/ DetailsFetchFailed

Spec == Init /\ [][Next]_vars

\* no request is under way while the utilities are called on their own
ServerIdle ==
    pc = "idle" /\ req = NoRequest /\ outbound = <<>> /\ fetched = Undef /\ res = Pending


(***************************************************************************)
(* Calls of the utilities on enumerated arguments.  An argument text is a  *)
(* concatenation of a few parts.                                           *)
(***************************************************************************)
\* every text made of at most n of the given parts
Texts(parts, n) == {Flatten(ps) : ps \in UNION {[1..m -> parts] : m \in 0..n}}

MaxPathParts == 3
PathParts == {<<"h","t","t","p","s",":","/","/","h","o","s","t">>, <<"/","v","i","d","e","o","s","/">>, <<"m","y","-","s","l","u","g","-","1">>, <<"?","r","e","f","=","x">>, <<"/">>, <<"v","i","d","e","o","s">>, <<" ">>, <<"/","m","o","r","e">>}
ExampleUrl == <<"h","t","t","p","s",":","/","/","h","o","s","t","/","v","i","d","e","o","s","/","m","y","-","s","l","u","g","-","1","?","r","e","f","=","x">>
PathInputs ==
    {Undef, Null, Str(ExampleUrl)} \cup {Str(s) : s \in Texts(PathParts, MaxPathParts)}

HostPrefix == <<"h","t","t","p","s",":","/","/","h","o","s","t","/">>

InitPath ==
    /\ ServerIdle
    /\ fn = "extractVideoPath"
    /\ arg \in PathInputs
    /\ ret = Pending
    /\ again = Pending

CallExtractVideoPath ==
    /\ fn = "extractVideoPath"
    /\ ret = Pending
    /\ ret' = extractVideoPath(arg)
    /\ UNCHANGED <<fn, arg, again, apiVars>>

\* the result, embedded in a full URL, is canonicalized again
ReEmbedVideoPath ==
    /\ fn = "extractVideoPath"
    /\ IsStr(ret)
    /\ again = Pending
    /\ again' = extractVideoPath(Str(HostPrefix \o ret.v))
    /\ UNCHANGED <<fn, arg, ret, apiVars>>

NextPath == CallExtractVideoPath \/ ReEmbedVideoPath

SpecPath == InitPath /\ [][NextPath]_vars

MaxUrlParts == 3
UrlParts == {<<"h","t","t","p","s",":","/","/","x","h","p","i","n","g","c","d","n",".","c","o","m">>, <<"h","t","t","p","s",":","/","/","i","m","g",".","x","h","p","i","n","g","c","d","n",".","c","o","m">>, <<"h","t","t","p","s",":","/","/","o","t","h","e","r",".","c","o","m">>,
             <<"/","a","(","1",")">>, <<",","b",".","j","p","g">>, <<"?","h","=","x","h","p","i","n","g","c","d","n",".","c","o","m">>, <<"%","2","8">>, <<"x","h","p","i","n","g","c","d","n",".","c","o","m">>}
UrlInputs == {Undef, Null} \cup {Str(s) : s \in Texts(UrlParts, MaxUrlParts)}

InitThumb ==
    /\ ServerIdle
    /\ fn = "formatThumbnailUrl"
    /\ arg \in UrlInputs
    /\ ret = Pending
    /\ again = Pending

CallFormatThumbnailUrl ==
    /\ fn = "formatThumbnailUrl"
    /\ ret = Pending
    /\ ret' = formatThumbnailUrl(arg)
    /\ UNCHANGED <<fn, arg, again, apiVars>>

\* the result is escaped again
ReFormatThumbnailUrl ==
    /\ fn = "formatThumbnailUrl"
    /\ ret # Pending
    /\ again = Pending
    /\ again' = formatThumbnailUrl(ret)
    /\ UNCHANGED <<fn, arg, ret, apiVars>>

NextThumb == CallFormatThumbnailUrl \/ ReFormatThumbnailUrl

SpecThumb == InitThumb /\ [][NextThumb]_vars

(***************************************************************************)
(* Claims about the normalizer                                             *)
(***************************************************************************)
\* "/videos/" followed by a segment that ends at the next "/", "?" or "#"
SegmentRe == <<Lit(<<"/","v","i","d","e","o","s","/">>), Open(1), Rep(NotIn({"/", "?", "#"}), 1, FALSE), Close(1)>>

\* C3: extractVideoPath returns "videos/<segment>", <segment> being only the
\* first path segment after "/videos/", any following path or query suffix
\* removed; extractVideoPath("https://host/videos/my-slug-1?ref=x") is
\* "videos/my-slug-1".
C3_FirstSegmentOnly ==
    (fn = "extractVideoPath" /\ ret # Pending /\ IsStr(arg)) =>
        /\ Search(SegmentRe, arg.v, 1).ok =>
              ret = Str(<<"v","i","d","e","o","s","/">> \o Group(arg.v, Search(SegmentRe, arg.v, 1), 1))
        /\ arg = Str(ExampleUrl) => ret = Str(<<"v","i","d","e","o","s","/","m","y","-","s","l","u","g","-","1">>)

\* s holds "/videos/" directly followed by a character other than "/"
HasSlug(s) ==
    \E i \in 1..(Len(s) - 8) : SubSeq(s, i, i + 7) = <<"/","v","i","d","e","o","s","/">> /\ s[i + 8] # "/"

\* C4: for an input holding a "/videos/<slug>" segment, canonicalizing the
\* result re-embedded in a full URL gives the result again; an input without
\* such a segment (empty, null, "/videos/" with nothing after it) gives "".
C4_PathIdempotent ==
    fn = "extractVideoPath" =>
        /\ (again # Pending /\ IsStr(arg) /\ HasSlug(arg.v)) => again = ret
        /\ (ret # Pending /\ ~(IsStr(arg) /\ HasSlug(arg.v))) => ret = Str(<<>>)

C4_Witness ==
    /\ fn = "extractVideoPath"
    /\ again # Pending
    /\ IsStr(arg) /\ HasSlug(arg.v) /\ Includes(arg.v, <<"/","m","o","r","e">>)
    /\ ret = Str(<<"v","i","d","e","o","s","/","m","y","-","s","l","u","g","-","1">>)

\* scheme://host...
UrlRe == <<Rep(In(Lower), 1, FALSE), Lit(<<":","/","/">>), Open(1),
           Rep(NotIn({"/", "?", "#"}), 0, FALSE), Close(1)>>
IsUrl(s) == MatchAt(UrlRe, s, 1).ok
HostOf(s) == Group(s, MatchAt(UrlRe, s, 1), 1)
IsCdnHost(h) ==
    \/ h = CdnHost
    \/ /\ Len(h) > Len(CdnHost)
       /\ SubSeq(h, Len(h) - Len(CdnHost), Len(h)) = <<".">> \o CdnHost
IsCdnUrl(s) == IsUrl(s) /\ IsCdnHost(HostOf(s))

\* C5: formatThumbnailUrl applied to its own result changes nothing, and the
\* result for a URL of the CDN host holds no literal "(", ")" or ",".
C5_EscapeIdempotent ==
    (fn = "formatThumbnailUrl" /\ IsStr(arg)) =>
        /\ again # Pending => again = ret
        /\ (ret # Pending /\ IsCdnUrl(arg.v)) =>
              /\ IsStr(ret)
              /\ \A i \in 1..Len(ret.v) : ret.v[i] \notin {"(", ")", ","}

C5_Witness ==
    /\ fn = "formatThumbnailUrl"
    /\ again # Pending
    /\ IsStr(arg) /\ IsCdnUrl(arg.v)
    /\ Includes(arg.v, <<"(">>) /\ Includes(arg.v, <<",">>)
    /\ ret # arg

\* C6: formatThumbnailUrl returns unchanged every URL whose host is not the
\* CDN host, also when the CDN host name stands in its path or query.
C6_OtherHostUnchanged ==
    (fn = "formatThumbnailUrl" /\ ret # Pending /\ IsStr(arg)
        /\ IsUrl(arg.v) /\ ~IsCdnHost(HostOf(arg.v))) => ret = arg

(***************************************************************************)
(* Calls of cleanVideoData on candidate records: every combination of the  *)
(* six required properties, each absent or holding one of a few values of  *)
(* several types, and some candidates with optional properties.            *)
(***************************************************************************)
PageURLValues == {Absent, Str(<<"h","t","t","p","s",":","/","/","x","/","v","i","d","e","o","s","/","a","-","1">>), Str(<<" ","h","t","t","p","s",":","/","/","x","/","v","i","d","e","o","s","/","b","/","m","o","r","e"," ">>),
                  Str(<<"h","t","t","p","s",":","/","/","x","/","v","i","d","e","o","s","/">>), Str(<<"h","t","t","p","s",":","/","/","x","/","w","a","t","c","h","/","a">>), Num(5)}
TitleValues == {Absent, Str(<<"A">>), Str(<<" ","A"," ","b"," ">>), Str(<<" "," ">>), Num(7)}
IdValues == {Absent, Num(1), Num(0), Num(-3), Str(<<"1","2">>), Str(<<"a","b","c">>)}
DurationValues == {Absent, Num(30), Num(0), Str(<<"9","0","s">>), Null}
ThumbURLValues == {Absent, Str(<<"h","t","t","p","s",":","/","/","c","d","n","/","x",".","j","p","g">>), Str(<<" ","h","t","t","p","s",":","/","/","x","h","p","i","n","g","c","d","n",".","c","o","m","/","a","(","1",")",".","j","p","g">>),
                   Str(<<" ">>), Bool(TRUE)}
ViewsValues == {Absent, Num(5), Num(0), Num(-1), Str(<<"n","/","a">>)}

Candidate(i, ti, d, p, th, v) ==
    MkObj((kId :> i) @@ (kTitle :> ti) @@ (kDuration :> d) @@ (kPageURL :> p)
          @@ (kThumbURL :> th) @@ (kViews :> v))

GoodCandidate ==
    (kId :> Num(1)) @@ (kTitle :> Str(<<"A">>)) @@ (kDuration :> Num(30))
    @@ (kPageURL :> Str(<<"h","t","t","p","s",":","/","/","x","/","v","i","d","e","o","s","/","a","-","1">>)) @@ (kThumbURL :> Str(<<"h","t","t","p","s",":","/","/","c","d","n","/","x",".","j","p","g">>))
    @@ (kViews :> Num(5))

OptionalCandidates ==
    {Obj(extra @@ GoodCandidate) : extra \in
        {(kLanding :> Obj((kId :> Str(<<"7">>)) @@ (kName :> Str(<<"N">>)))),
         (kLanding :> Bool(TRUE)),
         (kPreviewThumbURL :> Num(3)),
         (kImageURL :> Str(<<"h","t","t","p","s",":","/","/","x","h","p","i","n","g","c","d","n",".","c","o","m","/","i",",","1",".","j","p","g">>)),
         (kSpriteURL :> Arr(<<>>)),
         (kCreated :> Str(<<"1","7","0","0">>)) @@ (kVideoType :> Str(<<"v","r">>))}}

Candidates ==
    {Candidate(i, ti, d, p, th, v) :
        i \in IdValues, ti \in TitleValues, d \in DurationValues,
        p \in PageURLValues, th \in ThumbURLValues, v \in ViewsValues}
    \cup OptionalCandidates
    \cup {Null, Undef, Num(3), Str(<<"/","v","i","d","e","o","s","/","a">>), Arr(<<>>)}

InitClean ==
    /\ ServerIdle
    /\ fn = "cleanVideoData"
    /\ arg \in Candidates
    /\ ret = Pending
    /\ again = Pending

CallCleanVideoData ==
    /\ fn = "cleanVideoData"
    /\ ret = Pending
    /\ ret' = cleanVideoData(arg)
    /\ UNCHANGED <<fn, arg, again, apiVars>>

NextClean == CallCleanVideoData

SpecClean == InitClean /\ [][NextClean]_vars

\* the six required-field predicates of a returned record
SixPredicates(r) ==
    /\ IsNum(r.id) /\ r.id.v > 0
    /\ IsStr(r.title) /\ r.title.v # <<>> /\ Trim(r.title.v) = r.title.v
    /\ IsNum(r.duration) /\ r.duration.v > 0
    /\ IsStr(r.pageURL) /\ r.pageURL.v # <<>>
    /\ IsStr(r.thumbURL) /\ r.thumbURL.v # <<>>
    /\ IsNum(r.views) /\ r.views.v >= 0

\* C1: for every candidate record, of any field types, cleanVideoData returns
\* normally, and returns null or a record meeting the six required-field
\* predicates; it never exits any other way.
C1_ValidatorTotal ==
    (fn = "cleanVideoData" /\ ret # Pending) =>
        \/ ret = Null
        \/ ret.t = "video" /\ SixPredicates(ret)

(***************************************************************************)
(* Calls of the two de-duplication loops on sequences of cleaned records   *)
(***************************************************************************)
MaxVideos == 3

Cleaned(i, ti, p, v) ==
    cleanVideoData(Obj((kId :> i) @@ (kTitle :> ti) @@ (kPageURL :> p) @@ (kViews :> v)
                       @@ (kDuration :> Num(30)) @@ (kThumbURL :> Str(<<"h","t","t","p","s",":","/","/","c","d","n","/","x",".","j","p","g">>))))

\* cleaned records over two ids, three titles (one with a digit and "-",
\* one that ends like a key's tail) and two page paths, and one more that
\* differs from another in its views alone
CleanedPool ==
    {Cleaned(i, ti, p, Num(5)) :
        i \in {Num(1), Num(12)}, ti \in {Str(<<"A">>), Str(<<"2","-","A">>), Str(<<"A","-","v","i","d","e","o","s","/","a">>)},
        p \in {Str(<<"h","t","t","p","s",":","/","/","x","/","v","i","d","e","o","s","/","a">>), Str(<<"h","t","t","p","s",":","/","/","x","/","v","i","d","e","o","s","/","A","-","v","i","d","e","o","s">>)}}
    \cup {Cleaned(Num(1), Str(<<"A">>), Str(<<"h","t","t","p","s",":","/","/","x","/","v","i","d","e","o","s","/","a">>), Num(0))}

VideoLists == UNION {[1..n -> CleanedPool] : n \in 0..MaxVideos}

InitDedup ==
    /\ ServerIdle
    /\ fn \in {"uniqueRelatedVideos", "uniqueVideos"}
    /\ arg \in {Arr(a) : a \in VideoLists}
    /\ ret = Pending
    /\ again = Pending

CallUniqueRelatedVideos ==
    /\ fn = "uniqueRelatedVideos"
    /\ ret = Pending
    /\ ret' = Arr(uniqueRelatedVideos(arg.v))
    /\ UNCHANGED <<fn, arg, again, apiVars>>

CallUniqueVideos ==
    /\ fn = "uniqueVideos"
    /\ ret = Pending
    /\ ret' = Arr(uniqueVideos(arg.v))
    /\ UNCHANGED <<fn, arg, again, apiVars>>

NextDedup == CallUniqueRelatedVideos \/ CallUniqueVideos

SpecDedup == InitDedup /\ [][NextDedup]_vars

Triple(v) == <<v.id, v.title, v.pageURL>>

\* a is b with some elements left out
IsSubsequence(a, b) ==
    \E f \in [1..Len(a) -> 1..Len(b)] :
        /\ \A i \in 1..Len(a) : a[i] = b[f[i]]
        /\ \A i, j \in 1..Len(a) : i < j => f[i] < f[j]

\* the elements of a whose triple no earlier element of a has
FirstOfEachTriple(a) ==
    LET F[i \in 0..Len(a)] ==
            IF i = 0 THEN <<>>
            ELSE IF \A j \in 1..(i - 1) : Triple(a[j]) # Triple(a[i])
                 THEN Append(F[i - 1], a[i]) ELSE F[i - 1]
    IN  F[Len(a)]

\* C7: the de-duplicated related videos hold no two records of the same
\* (id, title, pageURL), are an order-preserving subsequence of the input and
\* keep the first occurrence of each triple; records that differ in views
\* alone collapse to one.
C7_RelatedDedup ==
    (fn = "uniqueRelatedVideos" /\ ret # Pending) =>
        /\ \A i, j \in 1..Len(ret.v) : i # j => Triple(ret.v[i]) # Triple(ret.v[j])
        /\ IsSubsequence(ret.v, arg.v)
        /\ ret.v = FirstOfEachTriple(arg.v)

C7_Witness ==
    /\ fn = "uniqueRelatedVideos" /\ ret # Pending
    /\ Len(arg.v) = 3 /\ Len(ret.v) = 2
    /\ Triple(arg.v[1]) = Triple(arg.v[3]) /\ arg.v[1].views # arg.v[3].views
    /\ arg.v[2].id = arg.v[1].id /\ arg.v[2].title # arg.v[1].title

Collide(x, y) == x.id = y.id \/ x.title = y.title \/ x.pageURL = y.pageURL

\* the elements of a that collide with no element kept before them
KeptStrictly(a) ==
    LET F[i \in 0..Len(a)] ==
            IF i = 0 THEN <<>>
            ELSE IF \E j \in 1..Len(F[i - 1]) : Collide(F[i - 1][j], a[i])
                 THEN F[i - 1] ELSE Append(F[i - 1], a[i])
    IN  F[Len(a)]

\* C8: the search de-duplication drops a record when an earlier kept record
\* has the same id, or the same title, or the same pageURL; the output is an
\* order-preserving subsequence with pairwise distinct ids, titles and
\* pageURLs.
C8_SearchDedup ==
    (fn = "uniqueVideos" /\ ret # Pending) =>
        /\ ret.v = KeptStrictly(arg.v)
        /\ IsSubsequence(ret.v, arg.v)
        /\ \A i, j \in 1..Len(ret.v) : i # j => ~Collide(ret.v[i], ret.v[j])

C8_Witness ==
    /\ fn = "uniqueVideos" /\ ret # Pending
    /\ Len(arg.v) = 3 /\ Len(ret.v) = 2
    /\ arg.v[2].title = arg.v[1].title
    /\ arg.v[2].id # arg.v[1].id /\ arg.v[2].pageURL # arg.v[1].pageURL
    /\ ret.v = <<arg.v[1], arg.v[3]>>

(***************************************************************************)
(* The responses of the two endpoints                                      *)
(***************************************************************************)
\* a response has been sent for the request and its status is 200
Succeeded == res # Pending /\ res.status = 200

\* the collection a successful response returns: searchResult of the search
\* endpoint, relatedVideos of the details endpoint
ReturnedVideos ==
    IF req.route = "search" THEN res.body.searchResult ELSE res.body.relatedVideos

\* C2: in every successful response, each record of the search endpoint's
\* searchResult and of the details endpoint's relatedVideos meets the six
\* required-field predicates and its pageURL contains "videos/", whichever
\* extraction strategy produced it.
C2_ValidityGate ==
    Succeeded =>
        \A i \in 1..Len(ReturnedVideos) :
            /\ ReturnedVideos[i].t = "video"
            /\ SixPredicates(ReturnedVideos[i])
            /\ Includes(ReturnedVideos[i].pageURL.v, <<"v","i","d","e","o","s","/">>)

\* a search answered from the cards of a page without scripts, and a
\* details request answered from an embedded array
C2_Witness ==
    /\ Succeeded
    /\ ReturnedVideos # <<>>
    /\ \/ req.route = "search" /\ fetched.scripts = <<>>
       \/ req.route = "details" /\ fetched.scripts = <<RelatedScript>>

\* the counters of a successful response, under the names of the claim
Counters ==
    IF req.route = "search"
    THEN [found |-> res.body.meta.totalFound,
          unique |-> res.body.meta.uniqueVideos,
          duplicatesRemoved |-> res.body.meta.duplicatesRemoved,
          complete |-> res.body.meta.completeVideos,
          filteredOut |-> res.body.meta.filtered]
    ELSE [found |-> res.body.meta.totalRelated,
          unique |-> res.body.meta.uniqueRelated,
          duplicatesRemoved |-> res.body.meta.duplicatesRemoved,
          complete |-> res.body.meta.completeRelated,
          filteredOut |-> res.body.meta.filteredRelated]

\* C9: in every successful search and details response the meta counters are
\* non-negative integers, found = unique + duplicatesRemoved, unique =
\* complete + filteredOut, and complete is the length of the returned
\* collection.
C9_StatsArithmetic ==
    Succeeded =>
        /\ \A c \in DOMAIN Counters : Counters[c] \in Nat
        /\ Counters.found = Counters.unique + Counters.duplicatesRemoved
        /\ Counters.unique = Counters.complete + Counters.filteredOut
        /\ Counters.complete = Len(ReturnedVideos)

\* a search response that removed duplicates and still returns a record
C9_Witness ==
    /\ Succeeded
    /\ req.route = "search"
    /\ Counters.duplicatesRemoved > 0
    /\ Counters.complete > 0

\* the record the example array stands for
IsExampleRecord(r) ==
    /\ r.id = Num(1)
    /\ r.title = Str(<<"A">>)
    /\ r.pageURL = Str(<<"v","i","d","e","o","s","/","a","-","1">>)
    /\ r.thumbURL = Str(<<"h","t","t","p","s",":","/","/","c","d","n","/","x",".","j","p","g">>)
    /\ r.duration = Num(30)
    /\ r.views = Num(5)

\* C10: a page whose embedded array is [{id:1,title:"A",
\* pageURL:"https://x/videos/a-1",thumbURL:"https://cdn/x.jpg",duration:30,
\* views:5}], with unquoted keys, yields exactly one validated record, with
\* pageURL "videos/a-1", duration 30 and views 5, from the search extractor
\* and from the related-videos extractor.
C10_ExampleArray ==
    (Succeeded /\ fetched.scripts = <<ExampleScript>>) =>
        /\ Len(ReturnedVideos) = 1
        /\ SixPredicates(ReturnedVideos[1])
        /\ IsExampleRecord(ReturnedVideos[1])

C10_Witness ==
    /\ Succeeded
    /\ req.route = "details"
    /\ fetched.scripts = <<ExampleScript>>
    /\ Len(res.body.relatedVideos) = 1

(***************************************************************************)
(* Calls of the extractors on a page, each made a second time later on     *)
(***************************************************************************)
Extractors ==
    {"extractSearchResults", "extractRelatedVideos", "extractVideoDetails",
     "extractPaginationInfo"}

\* what extractor f returns for html when the clock reads now
Extract(f, html, now) ==
    CASE f = "extractSearchResults" -> Arr(extractSearchResults(html, now))
      [] f = "extractRelatedVideos" -> Arr(extractRelatedVideos(html))
      [] f = "extractVideoDetails" -> extractVideoDetails(html, now)
      [] f = "extractPaginationInfo" -> extractPaginationInfo(html)

\* paginators: an active button or none, with a data-page attribute or
\* without, and the data-page attributes of the other buttons
ActiveValues == {Absent, Undef, Str(<<"2">>), Str(<<"x">>), Str(<<"0">>), Str(<<"-","3">>)}
ButtonValues == {<<>>, <<Str(<<"1">>), Str(<<"2">>), Str(<<"3">>)>>, <<Str(<<"0">>), Undef, Str(<<"-","3">>)>>}
Paginators ==
    [active : ActiveValues, pages : ButtonValues, next : BOOLEAN, prev : BOOLEAN]
PaginatorPages == {[Page(<<>>, BareLayout) EXCEPT !.paginator = p] : p \in Paginators}

\* pages whose only video data is an object in a script without any of the
\* markers, its fields in the order of the first pattern and of the second
IdFirstScript == <<"{","\"","i","t","e","m","s","\"",":","[","{","\"","i","d","\"",":","1","2",",","\"","t","i","t","l","e","\"",":","\"","P","\"",",","\"","p","a","g","e","U","R","L","\"",":","\"","/","v","i","d","e","o","s","/","p","-","1","2","\"",",","\"","t","h","u","m","b","U","R","L","\"",":","\"","t","\"",",","\"","d","u","r","a","t","i","o","n","\"",":","9","}","]","}">>
TitleFirstScript == <<"{","\"","i","t","e","m","s","\"",":","[","{","\"","t","i","t","l","e","\"",":","\"","Q","\"",",","\"","p","a","g","e","U","R","L","\"",":","\"","/","v","i","d","e","o","s","/","q","-","1","3","\"",",","\"","t","h","u","m","b","U","R","L","\"",":","\"","u","\"",",","\"","d","u","r","a","t","i","o","n","\"",":","8","}","]","}">>
PatternPages == {Page(<<script>>, BareLayout) : script \in {IdFirstScript, TitleFirstScript}}


InitExtract ==
    /\ ServerIdle
    /\ fn \in Extractors
    /\ arg \in [html : IF fn = "extractPaginationInfo" THEN PaginatorPages
                       ELSE Pages \cup PatternPages,
                now : Nows]
    /\ ret = Pending
    /\ again = Pending

\* const results = extractSearchResults(data), and the like
CallExtract ==
    /\ fn \in Extractors
    /\ ret = Pending
    /\ ret' = Extract(fn, arg.html, arg.now)
    /\ UNCHANGED <<fn, arg, again, apiVars>>

\* the same call on the same page, made when the clock reads more
CallExtractLater ==
    /\ fn \in Extractors
    /\ ret # Pending
    /\ again = Pending
    /\ \E later \in Nows :
          /\ later > arg.now
          /\ again' = Extract(fn, arg.html, later)
    /\ UNCHANGED <<fn, arg, ret, apiVars>>

NextExtract == CallExtract \/ CallExtractLater

SpecExtract == InitExtract /\ [][NextExtract]_vars

\* what each strategy of an extractor yields when it is run on its own, in
\* the extractor's order of priority: the valid records it recovers
StrategyOutputs(f, html, now) ==
    LET raw == RawHtml(html)
        videosOf(outcome) == IF outcome.done THEN outcome.videos ELSE <<>>
        cleanedOf(found) == LET cleaned == CleanAll(found)
                            IN  IF Threw(cleaned) THEN <<>> ELSE cleaned.v
    IN  IF f = "extractSearchResults"
        THEN <<videosOf(SearchResultStrategy(raw)),
               videosOf(ScriptTagStrategy(raw, MatchAllFrom(ScriptTagRe, raw, 1))),
               CardStrategy(html.cards, now)>>
        ELSE <<cleanedOf(ScriptMethod(html.scripts, <<"\"","r","e","l","a","t","e","d","V","i","d","e","o","s","C","o","m","p","o","n","e","n","t","\"">>, RelatedComponentRe)),
               cleanedOf(ScriptMethod(html.scripts, <<"\"","v","i","d","e","o","T","a","b","I","n","i","t","i","a","l","D","a","t","a","\"">>, VideoTabRe)),
               cleanedOf(ScriptMethod(html.scripts, <<"\"","v","i","d","e","o","T","h","u","m","b","P","r","o","p","s","\"">>, ThumbPropsRe)),
               cleanedOf(CardMethod(html.cards)),
               cleanedOf(PatternMethod(raw))>>

\* the first output that is not empty, or the empty one
FirstNonEmpty(outputs) ==
    LET full == {i \in 1..Len(outputs) : outputs[i] # <<>>}
    IN  IF full = {} THEN <<>> ELSE outputs[Min(full)]

\* C11: an extractor of a collection returns the output of exactly one
\* strategy, the first in priority order that yields a usable record; a
\* strategy that yields none, also one whose embedded JSON parses, leaves
\* the next strategy to be tried.
C11_Cascade ==
    (fn \in {"extractSearchResults", "extractRelatedVideos"} /\ ret # Pending) =>
        ret.v = FirstNonEmpty(StrategyOutputs(fn, arg.html, arg.now))

\* the candidates of the three script-embedded methods when each of them is
\* run and its finds are appended, and the DOM heuristics only when the
\* three together found nothing
CumulativeCandidates(html) ==
    LET embedded == ScriptMethod(html.scripts, <<"\"","r","e","l","a","t","e","d","V","i","d","e","o","s","C","o","m","p","o","n","e","n","t","\"">>, RelatedComponentRe)
                    \o ScriptMethod(html.scripts, <<"\"","v","i","d","e","o","T","a","b","I","n","i","t","i","a","l","D","a","t","a","\"">>, VideoTabRe)
                    \o ScriptMethod(html.scripts, <<"\"","v","i","d","e","o","T","h","u","m","b","P","r","o","p","s","\"">>, ThumbPropsRe)
        cards == CardMethod(html.cards)
    IN  IF embedded # <<>> THEN embedded
        ELSE IF cards # <<>> THEN cards
        ELSE PatternMethod(RawHtml(html))

\* C12: related-video extraction runs each of the three script-embedded
\* methods and appends its finds; the candidates it cleans are the finds of
\* all three, and those of the DOM heuristics only when the three found none.
C12_Cumulative ==
    (fn = "extractRelatedVideos" /\ ret # Pending) =>
        LET cleaned == CleanAll(CumulativeCandidates(arg.html))
        IN  ret.v = IF Threw(cleaned) THEN <<>> ELSE cleaned.v

\* the request in hand is a details request whose path lacks the prefix
InvalidPath ==
    /\ req.route = "details"
    /\ ~(Len(req.path) >= 7 /\ SubSeq(req.path, 1, 7) = <<"v","i","d","e","o","s","/">>)

\* C13: a details request whose path does not start with "videos/" is
\* answered 400 with the invalid-path error at once, and no outbound fetch
\* is issued for it: the handler never waits for one.
C13_InvalidBeforeFetch ==
    InvalidPath =>
        /\ pc = "done"
        /\ outbound = <<>>
        /\ fetched = Undef
        /\ res = [status |-> 400, body |-> [error |-> "Invalid path. Must start with videos/"]]

C13_Witness == InvalidPath /\ req.path = <<"w","a","t","c","h","/","a","-","1">> /\ res # Pending /\ res.status = 400

(***************************************************************************)
(* The handlers under the fetch's timeout                                  *)
(***************************************************************************)
\* axios.get is called with timeout: 10000 (search) and timeout: 15000
\* (details): the awaited promise settles, so a handler that waits for its
\* fetch does go on, to its response or to its catch
FairSpec ==
    /\ Spec
    /\ WF_vars(SearchRespond \/ SearchFetchFailed)
    /\ WF_vars(DetailsRespond \/ DetailsFetchFailed)

\* while the handler waits there is one fetch and no response; once it has
\* responded there is one response and at most one fetch
OneFetch ==
    /\ Len(outbound) <= 1
    /\ pc = "fetching" => Len(outbound) = 1 /\ res = Pending /\ fetched = Undef
    /\ pc = "done" => res # Pending

\* the step of a handler that waits ends the request with a response and
\* issues no fetch; after the response the next step is another request
OneResponse ==
    /\ pc = "fetching" => pc' = "done" /\ res' # Pending /\ outbound' = outbound /\ req' = req
    /\ pc = "done" => SearchRequest \/ DetailsRequest

\* C14: a request issues at most one outbound fetch and sends exactly one
\* response; a fetch that failed is not issued again, and every request
\* that starts a fetch ends in a success response or in an error response.
C14_OneFetchOneResponse ==
    /\ []OneFetch
    /\ [][OneResponse]_vars
    /\ (pc = "fetching") ~> (pc = "done" /\ res # Pending)

C14_Witness ==
    /\ pc = "done"
    /\ fetched = Rejected("timeout")
    /\ Len(outbound) = 1
    /\ res.status = 500

\* the fetch of the request in hand was rejected
FetchFailed == fetched \in {Rejected(failure) : failure \in Failures}

\* C15: a fetch that failed is answered with an error that is neither the
\* success nor the invalid-path response, and on both routes an upstream 404
\* is told apart from every other failure: it alone is answered 404.
C15_NotFoundTold ==
    FetchFailed =>
        /\ res.status \notin {200, 400}
        /\ "error" \in DOMAIN res.body
        /\ res.status = 404 <=> fetched = Rejected("404")

\* the fetch of the request in hand resolved with a page
FetchedPage == "scripts" \in DOMAIN fetched

\* the details handler answered that the details were not found
DetailsNotFound ==
    /\ req.route = "details"
    /\ res # Pending
    /\ res.status = 404
    /\ res.body.error = "Video details not found"

\* what the strategies of extractVideoDetails recover from a page, each on
\* its own: the record of the embedded videoModel, and the record the DOM
\* fallback builds when it finds a title
ModelRecovers(html) ==
    LET videoModel == VideoModelFrom(html.scripts)
    IN  Truthy(videoModel) /\ ~Threw(ModelDetails(videoModel))
DomRecovers(html) == \E now \in Nows : Truthy(DomDetails(html, now).title)

\* C16: the details-not-found answer is given for a fetched page, never for
\* a fetch that failed (an upstream 404 included), whenever
\* extractVideoDetails returns no record, and only for a page from which
\* neither the embedded videoModel nor the DOM fallback recovers anything.
C16_TotalFailure ==
    /\ DetailsNotFound => FetchedPage
    /\ (req.route = "details" /\ FetchedPage) =>
          (DetailsNotFound <=> \E now \in Nows : extractVideoDetails(fetched, now) = Null)
    /\ DetailsNotFound => ~ModelRecovers(fetched) /\ ~DomRecovers(fetched)

\* the collection the extractor of the route recovers from the fetched page
Extracted(now) ==
    IF req.route = "search" THEN extractSearchResults(fetched, now)
    ELSE extractRelatedVideos(fetched)

\* the response carries a collection and the stats of the extracted one
CollectionAnswer ==
    /\ res.status = 200
    /\ ReturnedVideos \in Seq({ReturnedVideos[i] : i \in 1..Len(ReturnedVideos)})
    /\ Counters.complete = Len(ReturnedVideos)
    /\ \E now \in Nows :
          /\ Counters.found = Len(Extracted(now))
          /\ Extracted(now) = <<>> =>
                /\ ReturnedVideos = <<>>
                /\ \A c \in DOMAIN Counters : Counters[c] = 0

\* C17: once the fetch succeeded, whatever the page, the search response is
\* a success that carries the collection, empty or not, with the counts of
\* what was extracted; the details response is one too unless the details
\* themselves were not found. An empty collection is never an error.
C17_NeverErrorOnEmpty ==
    (FetchedPage /\ res # Pending) =>
        IF req.route = "search" THEN CollectionAnswer
        ELSE DetailsNotFound \/ CollectionAnswer

C17_Witness ==
    /\ FetchedPage
    /\ req.route = "search"
    /\ fetched.scripts = <<HollowScript>>
    /\ res # Pending
    /\ res.status = 200
    /\ res.body.searchResult = <<>>
    /\ res.body.meta.totalFound = 0

\* the records of the candidates that cleanVideoData accepts, each cleaned
\* on its own
WellFormed(candidates) ==
    LET cleaned == [i \in 1..Len(candidates) |-> cleanVideoData(candidates[i])]
    IN  {cleaned[i] : i \in {i \in 1..Len(candidates) : ~Threw(cleaned[i]) /\ cleaned[i] # Null}}

\* C18: an error on one candidate does not abort the extraction: the record
\* of every well-formed candidate of the related videos is in the result,
\* also when another candidate of the same array has a title or pageURL
\* that is no string.
C18_ErrorIsolated ==
    (fn = "extractRelatedVideos" /\ ret # Pending) =>
        WellFormed(RelatedCandidates(arg.html)) \subseteq {ret.v[i] : i \in 1..Len(ret.v)}

\* C19: an extraction is a function of the HTML alone: a later call of
\* extractSearchResults, extractRelatedVideos or extractVideoDetails on the
\* same page returns what the first call returned, synthesized ids and
\* default values included.
C19_PureExtraction ==
    (fn \in {"extractSearchResults", "extractRelatedVideos", "extractVideoDetails"}
        /\ ret # Pending /\ again # Pending) => again = ret

\* the page carries no pagination marker
NoMarkers(html) ==
    /\ html.paginator.active = Absent
    /\ html.paginator.pages = <<>>
    /\ ~html.paginator.next
    /\ ~html.paginator.prev

\* C20: extractPaginationInfo returns currentPage >= 1 and totalPages >= 1
\* with boolean hasNext and hasPrevious, whatever the data-page attributes
\* hold, and {1, 1, false, false} for a page without pagination markers.
C20_PaginationInfo ==
    (fn = "extractPaginationInfo" /\ ret # Pending) =>
        /\ ret.currentPage \in Nat /\ ret.currentPage >= 1
        /\ ret.totalPages \in Nat /\ ret.totalPages >= 1
        /\ ret.hasNext \in BOOLEAN /\ ret.hasPrevious \in BOOLEAN
        /\ NoMarkers(arg.html) =>
              ret = [currentPage |-> 1, totalPages |-> 1, hasNext |-> FALSE, hasPrevious |-> FALSE]

\* the fields of a details record that have a stated default
DefaultedFields == {"views", "comments", "rating", "isVR", "isHD", "isFHD", "isUHD", "created"}

\* C21: the record extractVideoDetails returns, from the embedded videoModel
\* as well as from the DOM fallback, has views, comments, rating, the four
\* flags and created defined: a missing one is filled with its default.
C21_DetailDefaults ==
    (fn = "extractVideoDetails" /\ ret # Pending /\ ret.t = "details") =>
        /\ \A field \in DefaultedFields : ret[field] # Undef
        /\ ret.views.t = "number" /\ ret.comments.t = "number" /\ ret.created.t = "number"

(***************************************************************************)
(* parseVideoArray, pass by pass                                           *)
(***************************************************************************)
\* texts of array elements: an object of strict JSON, one without a title,
\* two that are no JSON (a bare word as value) with the six fields in the
\* pattern's order, with views 0 and with views 2, one with unquoted keys
\* and a brace inside a string, two of strict JSON whose title holds the
\* text of a key and of a trailing comma, a stray closing brace, and null
GoodElem == <<"{","\"","i","d","\"",":","1",",","\"","t","i","t","l","e","\"",":","\"","A","\"",",","\"","p","a","g","e","U","R","L","\"",":","\"","/","v","i","d","e","o","s","/","a","-","1","\"",",","\"","t","h","u","m","b","U","R","L","\"",":","\"","t","\"",",","\"","d","u","r","a","t","i","o","n","\"",":","3",",","\"","v","i","e","w","s","\"",":","5","}">>
UntitledElem == <<"{","\"","i","d","\"",":","2",",","\"","p","a","g","e","U","R","L","\"",":","\"","/","v","i","d","e","o","s","/","b","-","2","\"","}">>
ZeroViewsElem == <<"{","\"","i","d","\"",":","6",",","\"","t","i","t","l","e","\"",":","\"","F","\"",",","\"","p","a","g","e","U","R","L","\"",":","\"","/","v","i","d","e","o","s","/","f","-","6","\"",",","\"","t","h","u","m","b","U","R","L","\"",":","\"","t","\"",",","\"","d","u","r","a","t","i","o","n","\"",":","9",",","\"","v","i","e","w","s","\"",":","0",",","\"","h","d","\"",":","y","e","s","}">>
BareWordElem == <<"{","\"","i","d","\"",":","7",",","\"","t","i","t","l","e","\"",":","\"","E","\"",",","\"","p","a","g","e","U","R","L","\"",":","\"","/","v","i","d","e","o","s","/","e","-","7","\"",",","\"","t","h","u","m","b","U","R","L","\"",":","\"","t","\"",",","\"","d","u","r","a","t","i","o","n","\"",":","9",",","\"","v","i","e","w","s","\"",":","2",",","\"","h","d","\"",":","y","e","s","}">>
BraceInStringElem == <<"{","i","d",":","8",",","\"","t","i","t","l","e","\"",":","\"","G","}","\"",",","\"","p","a","g","e","U","R","L","\"",":","\"","/","v","i","d","e","o","s","/","g","-","8","\"","}">>
KeyInStringElem == <<"{","\"","i","d","\"",":","3",",","\"","t","i","t","l","e","\"",":","\"","a",","," ","b",":"," ","c","\"",",","\"","p","a","g","e","U","R","L","\"",":","\"","/","v","i","d","e","o","s","/","c","-","3","\"","}">>
CommaInStringElem == <<"{","\"","i","d","\"",":","4",",","\"","t","i","t","l","e","\"",":","\"","x",","," ","}","\"",",","\"","p","a","g","e","U","R","L","\"",":","\"","/","v","i","d","e","o","s","/","d","-","4","\"","}">>
StrayBrace == <<"}">>
NullElem == <<"n","u","l","l">>
ElemPool == {GoodElem, UntitledElem, ZeroViewsElem, BareWordElem, BraceInStringElem,
             KeyInStringElem, CommaInStringElem, StrayBrace, NullElem}

\* the number of elements of an array text
MaxElems == 2

\* what stands between two elements: a comma, or only a space
Joiners == {<<",">>, <<" ">>}

\* the text of the array of the given elements
ArrayText(elems, joiner) ==
    <<"[">> \o Flatten([i \in 1..Len(elems) |-> IF i = 1 THEN elems[i] ELSE joiner \o elems[i]]) \o <<"]">>

ArrayTexts ==
    {ArrayText(elems, joiner) :
        elems \in UNION {[1..n -> ElemPool] : n \in 0..MaxElems}, joiner \in Joiners}

\* cleanArrayStr: the text that is given to JSON.parse
cleanArrayStr(videosArrayStr) ==
    QuoteKeys(StripCommaBrace(StripCommaBracket(Trim(videosArrayStr))))

InitParse ==
    /\ ServerIdle
    /\ fn = "parseVideoArray"
    /\ arg \in ArrayTexts
    /\ ret = [at |-> "JSON.parse", ran |-> <<>>, videoObjects |-> <<>>]
    /\ again = Pending

\* Try to parse as JSON first
TryJsonParse ==
    /\ fn = "parseVideoArray"
    /\ ret.at = "JSON.parse"
    /\ LET videosArray == JSONparse(cleanArrayStr(arg))
       IN  ret' = IF videosArray.ok /\ videosArray.v.t = "array"
                  THEN [at |-> "returned", ran |-> <<"JSON.parse">>,
                        videoObjects |-> Select(videosArray.v.v, HasIdTitleUrl)]
                  ELSE [ret EXCEPT !.at = "videoRegex", !.ran = <<"JSON.parse">>]
    /\ UNCHANGED <<fn, arg, again, apiVars>>

\* a regex pass after which the brackets are counted in any case
RunVideoRegex_ThenBrackets ==
    /\ fn = "parseVideoArray"
    /\ ret.at = "videoRegex"
    /\ ret' = [at |-> "brackets", ran |-> Append(ret.ran, "videoRegex"),
               videoObjects |-> RegexPass(arg)]
    /\ UNCHANGED <<fn, arg, again, apiVars>>


\* Manual parsing fallback - look for individual video objects
RunVideoRegex ==
    /\ fn = "parseVideoArray"
    /\ ret.at = "videoRegex"
    /\ LET videoObjects == RegexPass(arg)
       IN  ret' = [at |-> IF videoObjects = <<>> THEN "brackets" ELSE "returned",
                   ran |-> Append(ret.ran, "videoRegex"),
                   videoObjects |-> videoObjects]
    /\ UNCHANGED <<fn, arg, again, apiVars>>

\* If regex method didn't work, try manual bracket counting
CountBrackets ==
    /\ fn = "parseVideoArray"
    /\ ret.at = "brackets"
    /\ ret' = [at |-> "returned", ran |-> Append(ret.ran, "brackets"),
               videoObjects |-> BracketLoop(arg)]
    /\ UNCHANGED <<fn, arg, again, apiVars>>

NextParse == TryJsonParse \/ RunVideoRegex \/ CountBrackets

SpecParse == InitParse /\ [][NextParse]_vars

\* parseVideoArray has returned
HasReturned == fn = "parseVideoArray" /\ ret.at = "returned"

\* the passes that were run
Ran(pass) == \E i \in 1..Len(ret.ran) : ret.ran[i] = pass

\* the repaired text parses, and to an array
StrictArray(s) ==
    LET videosArray == JSONparse(cleanArrayStr(s))
    IN  videosArray.ok /\ videosArray.v.t = "array"

\* C22: the regex pass of parseVideoArray runs exactly when the repaired
\* text did not parse as an array, the bracket counting exactly when the
\* regex pass ran and collected nothing; when the text parses, the result is
\* its elements with a truthy id, title and pageURL, in their order, and no
\* other pass runs.
C22_PassOrder ==
    HasReturned =>
        /\ Ran("JSON.parse")
        /\ Ran("videoRegex") <=> ~StrictArray(arg)
        /\ Ran("brackets") <=> (Ran("videoRegex") /\ RegexPass(arg) = <<>>)
        /\ StrictArray(arg) =>
              /\ ret.ran = <<"JSON.parse">>
              /\ ret.videoObjects =
                    SelectSeq(JSONparse(cleanArrayStr(arg)).v.v,
                              LAMBDA e : /\ Truthy(e)
                                         /\ \A k \in {kId, kTitle, kPageURL} : Truthy(Get(e, k)))

C22_Witness ==
    /\ HasReturned
    /\ ret.ran = <<"JSON.parse", "videoRegex", "brackets">>
    /\ Len(ret.videoObjects) = 2

\* the required-field predicates on the fields a match captures: a positive
\* id and duration, a title, pageURL and thumbURL that are not empty, and
\* views that are not negative
CapturedValid(video) ==
    /\ Get(video, kId).v > 0
    /\ Get(video, kDuration).v > 0
    /\ Get(video, kViews).v >= 0
    /\ \A k \in {kTitle, kPageURL, kThumbURL} : Get(video, k).v # <<>>

\* C23: the regex pass emits one candidate for every match of the six-field
\* pattern whose captured fields meet the required-field predicates, a
\* match with views 0 included.
C23_OnePerMatch ==
    (fn = "parseVideoArray" /\ ret.ran = <<"JSON.parse", "videoRegex">>) =>
        LET matches == MatchAllFrom(videoRegex, arg, 1)
        IN  ret.videoObjects =
                SelectSeq([i \in 1..Len(matches) |-> RegexVideo(arg, matches[i])],
                          LAMBDA video : CapturedValid(video))

\* the loop's variables before its first round
LoopStart ==
    [escaped |-> FALSE, inString |-> FALSE, bracketCount |-> 0, objectStart |-> 0,
     objects |-> <<>>]

\* the lowest value bracketCount takes in the loop over s
LowestCount(s) ==
    Reduce(LAMBDA st, i : LET round == BracketStep(s, st.loop, i)
                          IN  [loop |-> round, low |-> Min({st.low, round.bracketCount})],
           [i \in 1..Len(s) |-> i], 1, Len(s), [loop |-> LoopStart, low |-> 0]).low

\* the top-level balanced spans of s that close outside a string literal:
\* one round of a scan in which a closing brace at depth 0 is passed over
SpanStep(s, st, i) ==
    IF st.escaped THEN [st EXCEPT !.escaped = FALSE]
    ELSE IF s[i] = "\\" THEN [st EXCEPT !.escaped = TRUE]
    ELSE IF s[i] = "\"" THEN [st EXCEPT !.inString = ~st.inString]
    ELSE IF st.inString \/ s[i] \notin {"{", "}"} THEN st
    ELSE IF s[i] = "{"
    THEN [st EXCEPT !.objectStart = IF st.bracketCount = 0 THEN i ELSE @, !.bracketCount = @ + 1]
    ELSE IF st.bracketCount = 0 THEN st
    ELSE IF st.bracketCount = 1
    THEN [st EXCEPT !.bracketCount = 0, !.objects = Append(@, <<st.objectStart, i>>)]
    ELSE [st EXCEPT !.bracketCount = @ - 1]

BalancedSpans(s) ==
    Reduce(LAMBDA st, i : SpanStep(s, st, i), [i \in 1..Len(s) |-> i], 1, Len(s), LoopStart).objects

\* C24: in the bracket counting the depth never goes below zero, braces
\* inside string literals and escaped characters leave it alone, and every
\* top-level balanced span that closes outside a string literal, also one
\* after a stray closing brace, is repaired and parsed, its object being
\* kept when it has id, title and pageURL.
C24_BracketDepth ==
    (fn = "parseVideoArray" /\ ret.ran = <<"JSON.parse", "videoRegex", "brackets">>) =>
        /\ LowestCount(arg) >= 0
        /\ LET spans == BalancedSpans(arg)
           IN  ret.videoObjects =
                   Flatten([k \in 1..Len(spans) |->
                               ObjectVideos(SubSeq(arg, spans[k][1], spans[k][2]))])

\* the extraction came to its DOM strategy, the one that synthesizes ids:
\* the page holds no script
FromDom == fn \in Extractors /\ ret # Pending /\ arg.html.scripts = <<>>

\* the id is the absolute value of the polynomial hash of the last segment
\* of the path, in the shift form as in the product form
HashOfLastSegment(id, pageURL) ==
    LET segment == LastSegment(pageURL.v)
    IN  /\ shiftHash(segment) = hash(segment)
        /\ id = Num(Abs(hash(segment)))

\* C25: a synthesized id is the absolute value of the 32-bit signed hash
\* h*31 + charCode, wrapped, of the characters after the last "/" of the
\* path, in every strategy that synthesizes one; the shift form of the hash
\* equals the product form.
C25_IdSynthesis ==
    /\ (FromDom /\ fn \in {"extractSearchResults", "extractRelatedVideos"}) =>
          \A i \in 1..Len(ret.v) : HashOfLastSegment(ret.v[i].id, ret.v[i].pageURL)
    /\ (FromDom /\ fn = "extractVideoDetails" /\ ret.id # Undef) =>
          HashOfLastSegment(ret.id, ret.pageURL)

\* the record was built from the card: it carries the card's path
BuiltFrom(record, card) ==
    /\ card.href # Undef
    /\ extractVideoPath(Str(Trim(card.href.v))) = record.pageURL

\* the card's duration text holds a match of MM:SS
HasClock(card) == card.duration # Undef /\ ClockSeconds(Trim(card.duration.v)) # Absent

\* C26: the DOM strategy of the search results, as that of the related
\* videos, gives a record the duration MM*60 + SS of the first MM:SS in its
\* card's duration text.
C26_ClockDuration ==
    (FromDom /\ fn \in {"extractSearchResults", "extractRelatedVideos"}) =>
        \A i \in 1..Len(ret.v), c \in 1..Len(arg.html.cards) :
            (BuiltFrom(ret.v[i], arg.html.cards[c]) /\ HasClock(arg.html.cards[c])) =>
                ret.v[i].duration = ClockSeconds(Trim(arg.html.cards[c].duration.v))

\* title, pageURL, thumbURL and duration of a candidate
FourFields(video) ==
    <<Get(video, kTitle), Get(video, kPageURL), Get(video, kThumbURL), Get(video, kDuration)>>

\* the four fields a match captures, its groups from first on
Captured(s, match, first) ==
    <<Str(Group(s, match, first)), Str(Group(s, match, first + 1)),
      Str(Group(s, match, first + 2)), parseInt(Str(Group(s, match, first + 3)))>>

\* the captures of the matches of a pattern whose path holds /videos/
PathMatches(s, pattern, first) ==
    LET matches == MatchAllFrom(pattern, s, 1)
    IN  SelectSeq([i \in 1..Len(matches) |-> Captured(s, matches[i], first)],
                  LAMBDA captured : Includes(captured[2].v, <<"/","v","i","d","e","o","s","/">>))

\* the scripts and the cards of the page gave no candidate
NothingBefore(html) ==
    /\ ScriptMethod(html.scripts, <<"\"","r","e","l","a","t","e","d","V","i","d","e","o","s","C","o","m","p","o","n","e","n","t","\"">>, RelatedComponentRe) = <<>>
    /\ ScriptMethod(html.scripts, <<"\"","v","i","d","e","o","T","a","b","I","n","i","t","i","a","l","D","a","t","a","\"">>, VideoTabRe) = <<>>
    /\ ScriptMethod(html.scripts, <<"\"","v","i","d","e","o","T","h","u","m","b","P","r","o","p","s","\"">>, ThumbPropsRe) = <<>>
    /\ CardMethod(html.cards) = <<>>

\* C27: when no strategy before it found a candidate, the pattern scan of
\* the whole page adds, for every match of either pattern whose path holds
\* "/videos/", a candidate with the title, path, thumbnail and duration
\* that the match captured; when one did, the scan adds nothing.
C27_PatternScan ==
    (fn = "extractRelatedVideos" /\ ret # Pending) =>
        LET raw == RawHtml(arg.html)
            scanned == PatternMethod(raw)
        IN  IF NothingBefore(arg.html)
            THEN [i \in 1..Len(scanned) |-> FourFields(scanned[i])]
                 = PathMatches(raw, WithIdRe, 2) \o PathMatches(raw, NoIdRe, 1)
            ELSE LET cleaned == CleanAll(RelatedCandidates(arg.html))
                 IN  /\ RelatedCandidates(arg.html) # <<>>
                     /\ ret.v = IF Threw(cleaned) THEN <<>> ELSE cleaned.v

\* C28: every record an extractor returns passes the guard of the
\* de-duplication loop and the completeness filter of the response, so that
\* in every response nothing is filtered out, complete = unique, and
\* duplicatesRemoved counts records dropped as duplicates only.
C28_FilterNoOp ==
    (Succeeded /\ FetchedPage) =>
        /\ Counters.filteredOut = 0
        /\ Counters.complete = Counters.unique
        /\ \A now \in Nows :
              LET videos == Extracted(now)
              IN  \A i \in 1..Len(videos) : ~SkipInvalid(videos[i]) /\ IsComplete(videos[i])

C28_Witness ==
    /\ Succeeded /\ FetchedPage
    /\ Counters.unique > 1
    /\ Counters.duplicatesRemoved > 0
    /\ Counters.filteredOut = 0

\* C29: the repair leaves well-formed input alone: when the text given to
\* parseVideoArray is strict JSON of an array, the repaired text parses too
\* and gives the records of the text itself, also when a string value holds
\* text like ", word:" or ", }".
C29_RepairPreserves ==
    LET direct == JSONparse(Trim(arg))
    IN  (fn = "parseVideoArray" /\ ret.ran # <<>> /\ direct.ok /\ direct.v.t = "array") =>
            /\ ret.ran = <<"JSON.parse">>
            /\ ret.videoObjects =
                  SelectSeq(direct.v.v,
                            LAMBDA e : /\ Truthy(e)
                                       /\ \A k \in {kId, kTitle, kPageURL} : Truthy(Get(e, k)))

\* C30: the key of the related-videos de-duplication tells cleaned records
\* apart: two cleaned records that differ in id, title or pageURL never have
\* the same key, and a record whose triple no earlier record has is kept,
\* also when titles hold "-" or digits.
C30_KeyInjective ==
    (fn = "uniqueRelatedVideos" /\ ret # Pending) =>
        /\ \A i, j \in 1..Len(arg.v) :
              Triple(arg.v[i]) # Triple(arg.v[j]) => uniqueKey(arg.v[i]) # uniqueKey(arg.v[j])
        /\ \A i \in 1..Len(arg.v) :
              (\A j \in 1..(i - 1) : Triple(arg.v[j]) # Triple(arg.v[i])) =>
                  \E k \in 1..Len(ret.v) : ret.v[k] = arg.v[i]

C30_Witness ==
    /\ fn = "uniqueRelatedVideos" /\ ret # Pending
    /\ Len(arg.v) = 3 /\ ret.v = arg.v
    /\ arg.v[1].title = Str(<<"2","-","A">>) /\ arg.v[1].id = Num(1)
    /\ arg.v[2].title = Str(<<"A">>) /\ arg.v[2].id = Num(12)
    /\ arg.v[3].title = Str(<<"A","-","v","i","d","e","o","s","/","a">>) /\ arg.v[3].pageURL = arg.v[1].pageURL

====
